---- MODULE Spec2Model ----
(***************************************************************************)
(* Model of the WhatsTheMove backend: the move-plan orchestrator           *)
(* (backend/main_service.py and its terminal predecessor backend/main.py), *)
(* the job-summary builder and the listings selector                       *)
(* (backend/property_data/selector.py).                                    *)
(*                                                                         *)
(* Python values are modelled as tagged records so that values of          *)
(* different Python types can be compared:                                 *)
(*   str   -> [s |-> <<"a", "b">>]  (a tuple of one-character strings)     *)
(*   int / float -> [n |-> 5]                                              *)
(*   bool  -> [b |-> TRUE]                                                 *)
(*   None  -> [none |-> TRUE]                                              *)
(*   dict  -> [d |-> << [k |-> "key", v |-> value], ... >>] in insertion   *)
(*            order (Python dicts keep insertion order)                    *)
(*   list  -> [l |-> << value, ... >>]                                     *)
(***************************************************************************)
EXTENDS Integers, Sequences, FiniteSets, TLC

VARIABLES
    listings,   \* the listings CSV on disk: FileMissing or a list of rows
    op,         \* the operation that has run ("none" before any call)
    args,       \* the inputs that operation was called with
    ret,        \* what it returned or raised
    calls,      \* the collaborators it invoked, in call order
    tickets,    \* the DB1B ticket CSV (T_DB1B_TICKET.csv): a list of records
    air_model,  \* the module-level AirModel instance of air_model.py
    airports,   \* datasets/airports.csv: the rows after the header
    uscities,   \* datasets/uscities.csv: the rows after the header
    rentals,    \* datasets/CarRentalData.csv: a list of records
    ground_model, \* the module-level GroundModel instance of ground_model.py
    aliases,    \* the keys of the snapshot in ret whose value is the very
                \* dict object a model instance holds
    input_csv,  \* INPUT_CSV of google_search_empty.py: the rows after the header
    output_csv, \* OUTPUT_CSV of google_search_empty.py: the rows written so far
    rate_limit_hit, \* the module global of google_search_empty.py
    fetched,    \* `listings` in fetch_rentals_for_city: the items collected so far
    offset      \* `offset` in fetch_rentals_for_city

\* the data files and model instances of backend/transportation
transportState == <<tickets, air_model, airports, uscities, rentals, ground_model, aliases>>

\* the state of the data-preparation scripts
scriptState == <<input_csv, output_csv, rate_limit_hit, fetched, offset>>

vars == <<listings, op, args, ret, calls, transportState, scriptState>>

---------------------------------------------------------------------------
(* Python values *)

Str(s) == [s |-> s]
Num(n) == [n |-> n]
Bool(b) == [b |-> b]
None == [none |-> TRUE]
Dict(pairs) == [d |-> pairs]
List(items) == [l |-> items]

IsStr(v) == DOMAIN v = {"s"}
IsNum(v) == DOMAIN v = {"n"}
IsNone(v) == DOMAIN v = {"none"}
IsDict(v) == DOMAIN v = {"d"}

EmptyDict == Dict(<<>>)

\* the keys of a dict, in insertion order
DictKeys(dv) == [i \in 1..Len(dv.d) |-> dv.d[i].k]

HasKey(dv, key) == \E i \in 1..Len(dv.d) : dv.d[i].k = key

\* dict.get(key): the value, or None when the key is absent
DictGet(dv, key) ==
    IF HasKey(dv, key)
    THEN dv.d[CHOOSE i \in 1..Len(dv.d) : dv.d[i].k = key].v
    ELSE None

\* dict.get(key, default)
DictGetDefault(dv, key, default) ==
    IF HasKey(dv, key) THEN DictGet(dv, key) ELSE default

\* d[key] = value: replaces in place, or appends a new key at the end
DictSet(dv, key, value) ==
    IF HasKey(dv, key)
    THEN Dict([i \in 1..Len(dv.d) |->
                 IF dv.d[i].k = key THEN [k |-> key, v |-> value] ELSE dv.d[i]])
    ELSE Dict(Append(dv.d, [k |-> key, v |-> value]))

\* truthiness of a Python value (None, "", 0, False, {} and [] are falsy)
Truthy(v) ==
    CASE IsNone(v) -> FALSE
      [] IsStr(v) -> v.s # <<>>
      [] IsNum(v) -> v.n # 0
      [] DOMAIN v = {"b"} -> v.b
      [] IsDict(v) -> v.d # <<>>
      [] OTHER -> v.l # <<>>

---------------------------------------------------------------------------
(* Strings: tuples of one-character strings *)

Digits == <<"0", "1", "2", "3", "4", "5", "6", "7", "8", "9">>
UpperLetters == <<"A", "B", "C", "D", "E", "F", "G", "H", "I", "J", "K", "L", "M",
                  "N", "O", "P", "Q", "R", "S", "T", "U", "V", "W", "X", "Y", "Z">>
LowerLetters == <<"a", "b", "c", "d", "e", "f", "g", "h", "i", "j", "k", "l", "m",
                  "n", "o", "p", "q", "r", "s", "t", "u", "v", "w", "x", "y", "z">>

Range(seq) == {seq[i] : i \in 1..Len(seq)}

IndexOf(seq, c) == CHOOSE i \in 1..Len(seq) : seq[i] = c

DigitSet == Range(Digits)
UpperSet == Range(UpperLetters)
LowerSet == Range(LowerLetters)

IsDigit(c) == c \in DigitSet
DigitVal(c) == IndexOf(Digits, c) - 1

LowerChar(c) == IF c \in UpperSet THEN LowerLetters[IndexOf(UpperLetters, c)] ELSE c
UpperChar(c) == IF c \in LowerSet THEN UpperLetters[IndexOf(LowerLetters, c)] ELSE c

\* str.lower(), str.upper()
Lower(s) == [i \in 1..Len(s) |-> LowerChar(s[i])]
Upper(s) == [i \in 1..Len(s) |-> UpperChar(s[i])]

IsSpace(c) == c = " "

RECURSIVE LStrip(_)
LStrip(s) == IF s # <<>> /\ IsSpace(Head(s)) THEN LStrip(Tail(s)) ELSE s

RECURSIVE RStrip(_)
RStrip(s) == IF s # <<>> /\ IsSpace(s[Len(s)]) THEN RStrip(SubSeq(s, 1, Len(s) - 1)) ELSE s

\* str.strip()
Strip(s) == RStrip(LStrip(s))

\* str.replace(' ', '')
RECURSIVE RemoveSpaces(_)
RemoveSpaces(s) ==
    IF s = <<>> THEN <<>>
    ELSE IF Head(s) = " " THEN RemoveSpaces(Tail(s))
    ELSE <<Head(s)>> \o RemoveSpaces(Tail(s))

Contains(s, c) == \E i \in 1..Len(s) : s[i] = c

FirstIndex(s, c) == CHOOSE i \in 1..Len(s) : s[i] = c /\ \A j \in 1..(i - 1) : s[j] # c

\* s.split(c, 1): the part before the first c and the part after it
\* (only used when c occurs in s)
SplitOnce(s, c) ==
    <<SubSeq(s, 1, FirstIndex(s, c) - 1), SubSeq(s, FirstIndex(s, c) + 1, Len(s))>>

\* the decimal digits of a natural number
RECURSIVE NatToStr(_)
NatToStr(n) ==
    IF n < 10 THEN <<Digits[n + 1]>>
    ELSE NatToStr(n \div 10) \o <<Digits[(n % 10) + 1]>>

\* str(n) for an int
IntToStr(n) == IF n < 0 THEN <<"-">> \o NatToStr(-n) ELSE NatToStr(n)

\* the value of a non-empty string of digits and underscores
RECURSIVE DigitsVal(_, _)
DigitsVal(s, acc) ==
    IF s = <<>> THEN acc
    ELSE IF Head(s) = "_" THEN DigitsVal(Tail(s), acc)
    ELSE DigitsVal(Tail(s), acc * 10 + DigitVal(Head(s)))

\* digits with single underscores between them, as int() accepts
IsDigitBody(s) ==
    /\ s # <<>>
    /\ \A i \in 1..Len(s) : IsDigit(s[i]) \/ s[i] = "_"
    /\ IsDigit(s[1]) /\ IsDigit(s[Len(s)])
    /\ \A i \in 1..(Len(s) - 1) : ~(s[i] = "_" /\ s[i + 1] = "_")

\* int(s): surrounding whitespace, an optional sign, then the digits;
\* anything else raises ValueError
PyInt(s) ==
    LET t == Strip(s)
        signed == t # <<>> /\ Head(t) \in {"+", "-"}
        body == IF signed THEN Tail(t) ELSE t
    IN IF IsDigitBody(body)
       THEN [ok |-> TRUE,
             n |-> IF signed /\ Head(t) = "-" THEN -DigitsVal(body, 0) ELSE DigitsVal(body, 0)]
       ELSE [ok |-> FALSE, n |-> 0]

---------------------------------------------------------------------------
(* backend/main_service.py: constants and helpers *)

NA == <<"N", "A">>

MadisonWI == <<"M", "a", "d", "i", "s", "o", "n", ",", " ", "W", "I">>
SeattleWA == <<"S", "e", "a", "t", "t", "l", "e", ",", " ", "W", "A">>
NeenahWI == <<"N", "e", "e", "n", "a", "h", ",", " ", "W", "I">>

\* the canonical city names of build_city_slug_map
city_names == <<MadisonWI, SeattleWA, NeenahWI>>

\* "Madison, WI" -> "madisonwi"
CitySlug(full) ==
    LET city == Strip(SplitOnce(full, ",")[1])
        state == Strip(SplitOnce(full, ",")[2])
    IN RemoveSpaces(Lower(city)) \o Lower(state)

\* CITY_SLUG_MAP.get(slug.lower(), slug)
slug_to_city_state(slug) ==
    IF \E i \in 1..Len(city_names) : CitySlug(city_names[i]) = Lower(slug)
    THEN city_names[CHOOSE i \in 1..Len(city_names) :
                        /\ CitySlug(city_names[i]) = Lower(slug)
                        /\ \A j \in (i + 1)..Len(city_names) :
                              CitySlug(city_names[j]) # Lower(slug)]
    ELSE slug

\* the month difference alone, the years forgotten
compute_month_duration_MonthsOnly(start_month, start_year, end_month, end_year) ==
    IF IsNone(start_month) \/ IsNone(start_year) \/ IsNone(end_month) \/ IsNone(end_year)
    THEN None
    ELSE Num(end_month.n - start_month.n)

\* None when any input is None, else (end_year - start_year)*12 + (end_month - start_month)
compute_month_duration(start_month, start_year, end_month, end_year) ==
    IF IsNone(start_month) \/ IsNone(start_year) \/ IsNone(end_month) \/ IsNone(end_year)
    THEN None
    ELSE Num((end_year.n - start_year.n) * 12 + (end_month.n - start_month.n))

\* f"{month}/{year}"
MonthYearStr(month, year) == IntToStr(month.n) \o <<"/">> \o IntToStr(year.n)

build_job_summary(job_data) ==
    LET raw_title == DictGet(job_data, "job_title")
        raw_location == DictGet(job_data, "location")
        start_month_num == DictGet(job_data, "job_start_month")
        start_year == DictGet(job_data, "job_start_year")
        end_month_num == DictGet(job_data, "job_end_month")
        end_year == DictGet(job_data, "job_end_year")
        start_month_str ==
            IF Truthy(start_month_num) /\ Truthy(start_year)
            THEN MonthYearStr(start_month_num, start_year) ELSE NA
        end_month_str ==
            IF Truthy(end_month_num) /\ Truthy(end_year)
            THEN MonthYearStr(end_month_num, end_year) ELSE NA
        duration == compute_month_duration(start_month_num, start_year, end_month_num, end_year)
        duration_str == IF IsNone(duration) THEN NA ELSE IntToStr(duration.n)
        job_title == IF Truthy(raw_title) THEN raw_title ELSE Str(NA)
        move_to_destination == IF Truthy(raw_location) THEN raw_location ELSE Str(NA)
        s1 == DictSet(EmptyDict, "job_title", job_title)
        s2 == DictSet(s1, "move_to_destination", move_to_destination)
        s3 == DictSet(s2, "start_month", Str(start_month_str))
        s4 == DictSet(s3, "end_month", Str(end_month_str))
    IN DictSet(s4, "duration_months", Str(duration_str))

---------------------------------------------------------------------------
(* backend/main_service.py: MoveRequest and parse_move_request *)

MoveRequest(from_city, to_city, start_month, end_month, uh, tr, max_cost) ==
    [from_city_slug |-> from_city, to_city_slug |-> to_city,
     start_month |-> start_month, end_month |-> end_month,
     uhaul_and_moving_flags |-> uh, transport_flags |-> tr,
     apartment_max_cost |-> max_cost]

\* Python indexes from 0
use_uhaul_truck(req) == req.uhaul_and_moving_flags[1] = "1"
need_moving_help(req) == req.uhaul_and_moving_flags[2] = "1"
no_transport_needed(req) == req.transport_flags[1] = "1"
use_own_car(req) == req.transport_flags[2] = "1"
use_moving_truck_mode(req) == req.transport_flags[3] = "1"
need_rental_car(req) == req.transport_flags[4] = "1"
use_bus(req) == req.transport_flags[5] = "1"
use_plane(req) == req.transport_flags[6] = "1"
need_housing(req) == TRUE

\* the check without its alphabet half
BadFlags_LengthOnly(flags, n) == Len(flags) # n

\* len(flags) != n or any(c not in "01" for c in flags)
BadFlags(flags, n) == Len(flags) # n \/ \E i \in 1..Len(flags) : flags[i] \notin {"0", "1"}

\* returns [ok |-> TRUE, req |-> MoveRequest] or raises ValueError ([ok |-> FALSE])
parse_move_request(from_city, to_city, start_month, end_month, uh, tr, max_cost_str) ==
    IF BadFlags(uh, 2) THEN [ok |-> FALSE, error |-> "uhaul_and_moving_flags"]
    ELSE IF BadFlags(tr, 6) THEN [ok |-> FALSE, error |-> "transport_flags"]
    ELSE IF ~PyInt(max_cost_str).ok THEN [ok |-> FALSE, error |-> "max_cost"]
    ELSE [ok |-> TRUE,
          req |-> MoveRequest(from_city, to_city, start_month, end_month, uh, tr,
                              PyInt(max_cost_str).n)]

---------------------------------------------------------------------------
(* backend/property_data/selector.py *)

OUTPUT_FIELDS ==
    <<"id", "formattedAddress", "city", "state", "zipCode", "propertyType", "bedrooms",
      "bathrooms", "squareFootage", "yearBuilt", "status", "price", "listingWebsite">>

\* "Seattle, WA" -> <<"seattle", "WA">>; "Seattle" -> <<"seattle", "">>
normalize_city_state_input(city_input) ==
    LET c == Strip(city_input)
    IN IF Contains(c, ",")
       THEN <<Lower(Strip(SplitOnce(c, ",")[1])), Upper(Strip(SplitOnce(c, ",")[2]))>>
       ELSE <<Lower(c), <<>>>>

\* the listings file: missing, or the rows csv.DictReader yields (one dict per
\* line, keyed by the header; a value is a str, or None in a short line)
FileMissing == [exists |-> FALSE, rows |-> <<>>]
ListingsFile(rows) == [exists |-> TRUE, rows |-> rows]

\* raises FileNotFoundError when the file does not exist
load_listings(file) ==
    IF ~file.exists THEN [ok |-> FALSE, error |-> "FileNotFoundError"]
    ELSE [ok |-> TRUE, value |-> file.rows]

\* float(v): TypeError for None, ValueError for text that is not a number.
\* Listing prices are whole numbers of dollars.
PyFloat(v) ==
    IF IsNum(v) THEN [ok |-> TRUE, n |-> v.n]
    ELSE IF IsStr(v) THEN PyInt(v.s)
    ELSE [ok |-> FALSE, n |-> 0]

\* (row.get(key) or "")
GetOrEmpty(row, key) == IF Truthy(DictGet(row, key)) THEN DictGet(row, key).s ELSE <<>>

\* the loop body of find_top_apartments: does the row pass the city, state
\* and price filters
RowPasses(row, city_filter, state_filter, max_price) ==
    /\ Lower(Strip(GetOrEmpty(row, "city"))) = city_filter
    /\ (state_filter # <<>> => Upper(Strip(GetOrEmpty(row, "state"))) = state_filter)
    /\ PyFloat(DictGetDefault(row, "price", Num(0))).ok
    /\ PyFloat(DictGetDefault(row, "price", Num(0))).n <= max_price

\* row_copy = dict(row); row_copy["price"] = price_val
RowCopy(row) == DictSet(row, "price", Num(PyFloat(DictGetDefault(row, "price", Num(0))).n))

FilterRows(rows, city_filter, state_filter, max_price) ==
    CHOOSE filtered \in
        {[i \in 1..Len(kept) |-> RowCopy(kept[i])] :
            kept \in {SelectSeq(rows, LAMBDA row :
                                   RowPasses(row, city_filter, state_filter, max_price))}} :
        TRUE

\* insert a row after every row whose price is not larger (keeps list.sort stable)
RECURSIVE InsertByPrice(_, _)
InsertByPrice(sorted, row) ==
    IF sorted = <<>> THEN <<row>>
    ELSE IF DictGet(Head(sorted), "price").n <= DictGet(row, "price").n
    THEN <<Head(sorted)>> \o InsertByPrice(Tail(sorted), row)
    ELSE <<row>> \o sorted

\* filtered.sort(key=lambda r: r["price"])
RECURSIVE SortByPrice(_)
SortByPrice(rows) ==
    IF rows = <<>> THEN <<>>
    ELSE CHOOSE r \in {InsertByPrice(sorted, rows[Len(rows)]) :
                          sorted \in {SortByPrice(SubSeq(rows, 1, Len(rows) - 1))}} : TRUE

\* blank strings passed through; only None becomes "NA"
OutputValue_KeepBlank(row, field) ==
    LET value == DictGet(row, field)
    IN IF IsNone(value) THEN Str(NA)
       ELSE IF field = "price"
            THEN (IF PyFloat(value).ok THEN Num(PyFloat(value).n) ELSE Str(NA))
            ELSE value

\* one output value: "NA" for None or blank, a float for price, else the value
OutputValue(row, field) ==
    LET value == DictGet(row, field)
    IN IF IsNone(value) \/ (IsStr(value) /\ Strip(value.s) = <<>>) THEN Str(NA)
       ELSE IF field = "price"
            THEN (IF PyFloat(value).ok THEN Num(PyFloat(value).n) ELSE Str(NA))
            ELSE value

OutputEntry(row) ==
    Dict([i \in 1..Len(OUTPUT_FIELDS) |->
            [k |-> OUTPUT_FIELDS[i], v |-> OutputValue(row, OUTPUT_FIELDS[i])]])

\* the whole list, the limit forgotten
Slice_NoLimit(seq, n) == seq

\* filtered[:max_results]
Slice(seq, n) == SubSeq(seq, 1, IF Len(seq) < n THEN Len(seq) ELSE n)

find_top_apartments(destination_city, max_price, file, max_results) ==
    LET norm == normalize_city_state_input(destination_city)
        all_listings == load_listings(file)
        entries(top) == [ok |-> TRUE, value |-> List([i \in 1..Len(top) |-> OutputEntry(top[i])])]
    IN IF ~all_listings.ok THEN all_listings
       ELSE CHOOSE r \in
                {entries(top) :
                    top \in {Slice(SortByPrice(filtered), max_results) :
                               filtered \in {FilterRows(all_listings.value, norm[1], norm[2],
                                                        max_price)}}} : TRUE

---------------------------------------------------------------------------
(* Dates: datetime.now(), timedelta, replace and strftime *)

Date(y, m, d) == [y |-> y, m |-> m, d |-> d]

IsLeap(y) == (y % 4 = 0 /\ y % 100 # 0) \/ y % 400 = 0

DaysInMonth(y, m) ==
    IF m = 2 THEN (IF IsLeap(y) THEN 29 ELSE 28)
    ELSE IF m \in {4, 6, 9, 11} THEN 30 ELSE 31

\* dt + timedelta(days=1)
PlusOneDay(dt) ==
    IF dt.d < DaysInMonth(dt.y, dt.m) THEN Date(dt.y, dt.m, dt.d + 1)
    ELSE IF dt.m < 12 THEN Date(dt.y, dt.m + 1, 1)
    ELSE Date(dt.y + 1, 1, 1)

\* dt.replace(day=dt.day + 1): ValueError when the month has no such day
ReplaceDayPlusOne(dt) ==
    IF dt.d + 1 <= DaysInMonth(dt.y, dt.m)
    THEN [ok |-> TRUE, value |-> Date(dt.y, dt.m, dt.d + 1)]
    ELSE [ok |-> FALSE, error |-> "ValueError"]

TwoDigits(n) == IF n < 10 THEN <<"0">> \o NatToStr(n) ELSE NatToStr(n)

\* dt.strftime("%m/%d/%Y")
Strftime(dt) == TwoDigits(dt.m) \o <<"/">> \o TwoDigits(dt.d) \o <<"/">> \o NatToStr(dt.y)

---------------------------------------------------------------------------
(* backend/main_service.py: the estimators *)

\* a literal text the code never inspects, kept as one chunk
Text(t) == Str(<<t>>)

\* dict literal {k1: v1, ...}
RECURSIVE DictOf(_)
DictOf(kvs) ==
    IF kvs = <<>> THEN EmptyDict
    ELSE DictSet(DictOf(SubSeq(kvs, 1, Len(kvs) - 1)), kvs[Len(kvs)][1], kvs[Len(kvs)][2])

TruckOption(type, base, mileage, total) ==
    DictOf(<< <<"truck_type", Text(type)>>, <<"estimated_base_rate", Num(base)>>,
              <<"estimated_mileage_fees", Num(mileage)>>, <<"estimated_total", Num(total)>> >>)

estimate_uhaul_truck_cost(req) ==
    LET pickup_city == slug_to_city_state(req.from_city_slug)
        dropoff_city == slug_to_city_state(req.to_city_slug)
        long_distance == pickup_city # dropoff_city
        options ==
            IF long_distance
            THEN <<TruckOption("10-foot truck", 450, 220, 670),
                   TruckOption("15-foot truck", 520, 240, 760)>>
            ELSE <<TruckOption("10-foot truck", 45, 40, 85),
                   TruckOption("15-foot truck", 55, 45, 100)>>
    IN DictOf(<< <<"enabled", Bool(TRUE)>>,
                 <<"note", Text("Demo U-Haul cost estimates (static).")>>,
                 <<"pickup_city", Str(pickup_city)>>,
                 <<"dropoff_city", Str(dropoff_city)>>,
                 <<"options", List(options)>> >>)

Provider(name, hours, crew, total) ==
    DictOf(<< <<"name", Text(name)>>, <<"hours", Num(hours)>>,
              <<"crew_size", Num(crew)>>, <<"estimated_total", Num(total)>> >>)

estimate_moving_help_cost(req, now) ==
    LET loading_dt == now
        unloading_dt == PlusOneDay(loading_dt)
    IN DictOf(<< <<"enabled", Bool(TRUE)>>,
                 <<"note", Text("Demo moving-help estimates (static).")>>,
                 <<"loading_address", Str(slug_to_city_state(req.from_city_slug))>>,
                 <<"unloading_address", Str(slug_to_city_state(req.to_city_slug))>>,
                 <<"loading_date", Str(Strftime(loading_dt))>>,
                 <<"unloading_date", Str(Strftime(unloading_dt))>>,
                 <<"providers", List(<<Provider("QuickMove Helpers", 2, 2, 220),
                                       Provider("College Movers Co.", 3, 2, 310)>>)>> >>)

\* max_results=10 in get_housing_options
HousingMaxResults == 10

\* raises what find_top_apartments raises
get_housing_options(req, file) ==
    LET destination_city_str == slug_to_city_state(req.to_city_slug)
        section(apartments) ==
            IF ~apartments.ok THEN apartments
            ELSE [ok |-> TRUE,
                  value |-> DictOf(<< <<"enabled", Bool(TRUE)>>,
                                      <<"destination_city", Str(destination_city_str)>>,
                                      <<"max_price", Num(req.apartment_max_cost)>>,
                                      <<"results_count", Num(Len(apartments.value.l))>>,
                                      <<"apartments", apartments.value>> >>)]
    IN CHOOSE r \in {section(apartments) :
                        apartments \in {find_top_apartments(destination_city_str,
                                                            req.apartment_max_cost,
                                                            file, HousingMaxResults)}} : TRUE

\* round(miles * 1.60934, 1), kept in tenths of a kilometre
KmTenths(miles) == (miles * 160934 + 50000) \div 100000

\* a failed distance lookup reported as a distance of 0 miles
estimate_plane_cost_DefaultDistance(req, flight) ==
    LET origin_full == slug_to_city_state(req.from_city_slug)
        dest_full == slug_to_city_state(req.to_city_slug)
        distance_miles == IF flight.ok THEN Num(flight.miles) ELSE Num(0)
        info == DictOf(<< <<"enabled", Bool(TRUE)>>,
                          <<"origin_city", Str(origin_full)>>,
                          <<"destination_city", Str(dest_full)>>,
                          <<"distance_miles", distance_miles>>,
                          <<"description", Text("Great-circle distance between nearest airports.")>> >>)
    IN DictSet(info, "distance_km", Num(KmTenths(distance_miles.n)))

\* flight is what calc_flight_distance(origin_city, dest_city) does for this
\* pair: [ok |-> TRUE, miles |-> n], or [ok |-> FALSE, error |-> e] when it raises
estimate_plane_cost(req, flight) ==
    LET origin_full == slug_to_city_state(req.from_city_slug)
        dest_full == slug_to_city_state(req.to_city_slug)
        distance_miles == IF flight.ok THEN Num(flight.miles) ELSE None
        error == IF flight.ok THEN None ELSE Text(flight.error)
        info == DictOf(<< <<"enabled", Bool(TRUE)>>,
                          <<"origin_city", Str(origin_full)>>,
                          <<"destination_city", Str(dest_full)>>,
                          <<"distance_miles", distance_miles>>,
                          <<"description", Text("Great-circle distance between nearest airports.")>> >>)
        withKm == IF ~IsNone(distance_miles)
                  THEN DictSet(info, "distance_km", Num(KmTenths(distance_miles.n)))
                  ELSE info
    IN IF ~IsNone(error) THEN DictSet(withKm, "error", error) ELSE withKm

Placeholder(description, price) ==
    DictOf(<< <<"enabled", Bool(TRUE)>>, <<"description", Text(description)>>,
              <<"example_price", Num(price)>> >>)

estimate_bus_cost(req) == Placeholder("Placeholder bus estimate", 120)
estimate_rental_car_cost(req) == Placeholder("Placeholder rental car estimate", 600)
estimate_own_car_cost(req) == Placeholder("Placeholder own-car gas estimate", 300)

---------------------------------------------------------------------------
(* backend/main_service.py: build_move_plan and get_move_plan *)

\* a disabled mode left in the section as a null entry
ModeLine_NullWhenDisabled(enabled, key, estimator, value) ==
    [enabled |-> TRUE, key |-> key, estimator |-> estimator,
     value |-> IF enabled THEN value ELSE None]

\* one `if req.<flag>: result["transportation"][key] = estimator(req)` line
ModeLine(enabled, key, estimator, value) ==
    [enabled |-> enabled, key |-> key, estimator |-> estimator,
     value |-> IF enabled THEN value ELSE None]

\* the lines that ran: their results in order under their keys after the
\* skipped flag, and the estimators they called
RunModes(lines) ==
    LET ran == SelectSeq(lines, LAMBDA m : m.enabled)
    IN [dict |-> Dict(<<[k |-> "skipped", v |-> Bool(FALSE)]>>
                      \o [i \in 1..Len(ran) |-> [k |-> ran[i].key, v |-> ran[i].value]]),
        calls |-> [i \in 1..Len(ran) |-> ran[i].estimator]]

\* the six mode lines of build_move_plan, in source order
ModeLines(req, flight, now) ==
    <<  ModeLine(use_uhaul_truck(req), "uhaul_truck",
                 "estimate_uhaul_truck_cost", estimate_uhaul_truck_cost(req)),
        ModeLine(use_own_car(req), "own_car",
                 "estimate_own_car_cost", estimate_own_car_cost(req)),
        ModeLine(need_rental_car(req), "rental_car",
                 "estimate_rental_car_cost", estimate_rental_car_cost(req)),
        ModeLine(use_bus(req), "bus", "estimate_bus_cost", estimate_bus_cost(req)),
        ModeLine(use_plane(req), "plane",
                 "estimate_plane_cost", estimate_plane_cost(req, flight)),
        ModeLine(need_moving_help(req), "moving_help",
                 "estimate_moving_help_cost", estimate_moving_help_cost(req, now)) >>

\* the mode lines run without looking at the have-arrangements bit
TransportationSection_IgnoreSkip(req, flight, now) == RunModes(ModeLines(req, flight, now))

\* step 3 of build_move_plan: result["transportation"] and the estimators called
TransportationSection(req, flight, now) ==
    IF no_transport_needed(req)
    THEN [dict |-> DictSet(DictSet(EmptyDict, "skipped", Bool(TRUE)), "reason",
                           Text("User indicated they already have travel arrangements.")),
          calls |-> <<>>]
    ELSE RunModes(ModeLines(req, flight, now))

\* step 2 of build_move_plan: the request echo
RequestEcho(req) ==
    DictOf(<< <<"from_city", Str(req.from_city_slug)>>,
              <<"to_city", Str(req.to_city_slug)>>,
              <<"start_month", Str(req.start_month)>>,
              <<"end_month", Str(req.end_month)>>,
              <<"flags", DictOf(<< <<"uhaul_and_moving", Str(req.uhaul_and_moving_flags)>>,
                                   <<"transport", Str(req.transport_flags)>> >>)>>,
              <<"apartment_max_cost", Num(req.apartment_max_cost)>> >>)

\* [ok |-> TRUE, value |-> the plan, calls |-> ...], or
\* [ok |-> FALSE, error |-> the exception that escapes, calls |-> ...]
\* the request echo written before the job summary
PlanHead_RequestFirst(req, job_info) ==
    LET r1 == DictSet(EmptyDict, "request", RequestEcho(req))
    IN IF ~IsNone(job_info) THEN DictSet(r1, "job_summary", build_job_summary(job_info))
       ELSE r1

\* steps 1 and 2 of build_move_plan: the job summary, when there is job_info,
\* then the request echo
PlanHead(req, job_info) ==
    LET r1 == IF ~IsNone(job_info)
              THEN DictSet(EmptyDict, "job_summary", build_job_summary(job_info))
              ELSE EmptyDict
    IN DictSet(r1, "request", RequestEcho(req))

build_move_plan(req, job_info, file, flight, now) ==
    LET r2 == PlanHead(req, job_info)
        NoHousing == [ok |-> TRUE,
                      value |-> DictOf(<< <<"enabled", Bool(FALSE)>>,
                                          <<"reason", Text("User indicated they do not need housing help.")>> >>)]
        finish(transport, housing) ==
            LET r3 == DictSet(r2, "transportation", transport.dict)
                called == IF need_housing(req)
                          THEN Append(transport.calls, "find_top_apartments")
                          ELSE transport.calls
            IN IF ~housing.ok THEN [ok |-> FALSE, error |-> housing.error, calls |-> called]
               ELSE [ok |-> TRUE, value |-> DictSet(r3, "housing", housing.value),
                     calls |-> called]
    IN CHOOSE r \in {finish(transport, housing) :
                        transport \in {TransportationSection(req, flight, now)},
                        housing \in {IF need_housing(req) THEN get_housing_options(req, file)
                                     ELSE NoHousing}} : TRUE

\* the job_info get_move_plan builds when analyze_job_url raises e
JobFailureInfo(e) ==
    DictOf(<< <<"job_title", None>>, <<"location", None>>,
              <<"job_start_month", None>>, <<"job_start_year", None>>,
              <<"job_end_month", None>>, <<"job_end_year", None>>,
              <<"job_analysis_error", Text(e)>> >>)

Http(status, body, error, called) ==
    [status |-> status, body |-> body, error |-> error, calls |-> called]

\* in.job is what analyze_job_url does for in.job_url: [ok |-> TRUE, value |-> dict]
\* or [ok |-> FALSE, error |-> e].  An exception that escapes the handler is
\* answered with HTTP 500 by the framework.
\* move_plan = build_move_plan(req, job_info=job_info); return move_plan
ServePlan(req, job_info, in, file) ==
    LET called(plan) == (IF Truthy(in.job_url) THEN <<"analyze_job_url">> ELSE <<>>)
                        \o plan.calls
        respond(plan) == IF ~plan.ok THEN Http(500, None, plan.error, called(plan))
                         ELSE Http(200, plan.value, "", called(plan))
    IN CHOOSE r \in {respond(plan) :
                        plan \in {build_move_plan(req, job_info, file, in.flight, in.now)}} : TRUE

\* the handler without the try/except around analyze_job_url
PlanResponse_JobFailureEscapes(req, in, file) ==
    IF Truthy(in.job_url) /\ ~in.job.ok
    THEN Http(500, None, in.job.error, <<"analyze_job_url">>)
    ELSE ServePlan(req, IF Truthy(in.job_url) THEN in.job.value ELSE None, in, file)

\* the handler once the request is parsed: the optional job analysis, then the plan
PlanResponse(req, in, file) ==
    LET job_info == IF ~Truthy(in.job_url) THEN None
                    ELSE IF in.job.ok THEN in.job.value
                    ELSE JobFailureInfo(in.job.error)
    IN ServePlan(req, job_info, in, file)

get_move_plan(in, file) ==
    LET parsed == parse_move_request(in.from_city, in.to_city, in.start_month, in.end_month,
                                     in.uh_mv_flags, in.transport_flags, IntToStr(in.max_cost))
    IN IF ~parsed.ok THEN Http(400, None, parsed.error, <<>>)
       ELSE CHOOSE r \in {PlanResponse(req, in, file) : req \in {parsed.req}} : TRUE

---------------------------------------------------------------------------
(* backend/main.py: the terminal variant, with one 8-character flag string *)
(* and the live truck and moving-help scrapers                              *)

main_MoveRequest(from_city, to_city, start_month, end_month, flags, max_cost) ==
    [from_city_slug |-> from_city, to_city_slug |-> to_city,
     start_month |-> start_month, end_month |-> end_month,
     flags |-> flags, apartment_max_cost |-> max_cost]

main_no_transport_needed(req) == req.flags[1] = "1"
main_use_uhaul_truck(req) == req.flags[2] = "1"
main_use_own_car(req) == req.flags[3] = "1"
main_need_rental_car(req) == req.flags[4] = "1"
main_use_bus(req) == req.flags[5] = "1"
main_use_plane(req) == req.flags[6] = "1"
main_need_moving_help(req) == req.flags[7] = "1"
main_need_housing(req) == req.flags[8] = "1"

\* truck is what get_truck_options does: [ok |-> TRUE, value |-> dict] or
\* [ok |-> FALSE, error |-> e]; the estimator returns or raises the same
main_estimate_uhaul_truck_cost(req, truck) == truck

\* the date hack raises before the scraper is reached; movers is what
\* get_moving_help_options does
main_estimate_moving_help_cost(req, now, movers) ==
    IF ~ReplaceDayPlusOne(now).ok THEN [ok |-> FALSE, error |-> ReplaceDayPlusOne(now).error]
    ELSE movers

main_estimate_plane_cost(req) ==
    DictOf(<< <<"enabled", Bool(TRUE)>>,
              <<"description", Text("Placeholder plane ticket estimates")>>,
              <<"example_economy_price", Num(320)>> >>)

Returns(value) == [ok |-> TRUE, value |-> value]

\* as Mode, for an estimator that may raise: once one has raised, nothing
\* after it runs
ModeOrRaise(acc, enabled, key, estimator, outcome) ==
    IF ~acc.ok \/ ~enabled THEN acc
    ELSE IF outcome.ok
    THEN [ok |-> TRUE, error |-> "", dict |-> DictSet(acc.dict, key, outcome.value),
          calls |-> Append(acc.calls, estimator)]
    ELSE [ok |-> FALSE, error |-> outcome.error, dict |-> acc.dict,
          calls |-> Append(acc.calls, estimator)]

main_TransportationSection(req, truck, movers, now) ==
    IF main_no_transport_needed(req)
    THEN [ok |-> TRUE, error |-> "",
          dict |-> DictSet(DictSet(EmptyDict, "skipped", Bool(TRUE)), "reason",
                           Text("User indicated they already have travel arrangements.")),
          calls |-> <<>>]
    ELSE LET t0 == [ok |-> TRUE, error |-> "",
                    dict |-> DictSet(EmptyDict, "skipped", Bool(FALSE)), calls |-> <<>>]
             t1 == ModeOrRaise(t0, main_use_uhaul_truck(req), "uhaul_truck",
                               "estimate_uhaul_truck_cost",
                               main_estimate_uhaul_truck_cost(req, truck))
             t2 == ModeOrRaise(t1, main_use_own_car(req), "own_car",
                               "estimate_own_car_cost", Returns(estimate_own_car_cost(req)))
             t3 == ModeOrRaise(t2, main_need_rental_car(req), "rental_car",
                               "estimate_rental_car_cost", Returns(estimate_rental_car_cost(req)))
             t4 == ModeOrRaise(t3, main_use_bus(req), "bus",
                               "estimate_bus_cost", Returns(estimate_bus_cost(req)))
             t5 == ModeOrRaise(t4, main_use_plane(req), "plane",
                               "estimate_plane_cost", Returns(main_estimate_plane_cost(req)))
         IN ModeOrRaise(t5, main_need_moving_help(req), "moving_help",
                        "estimate_moving_help_cost",
                        main_estimate_moving_help_cost(req, now, movers))

main_RequestEcho(req) ==
    DictOf(<< <<"from_city", Str(req.from_city_slug)>>,
              <<"to_city", Str(req.to_city_slug)>>,
              <<"start_month", Str(req.start_month)>>,
              <<"end_month", Str(req.end_month)>>,
              <<"flags", Str(req.flags)>>,
              <<"apartment_max_cost", Num(req.apartment_max_cost)>> >>)

main_build_move_plan(req, job_info, file, truck, movers, now) ==
    LET r1 == IF ~IsNone(job_info)
              THEN DictSet(EmptyDict, "job_summary", build_job_summary(job_info))
              ELSE EmptyDict
        r2 == DictSet(r1, "request", main_RequestEcho(req))
        transport == main_TransportationSection(req, truck, movers, now)
        r3 == DictSet(r2, "transportation", transport.dict)
        housing == IF main_need_housing(req) THEN get_housing_options(req, file)
                   ELSE [ok |-> TRUE,
                         value |-> DictOf(<< <<"enabled", Bool(FALSE)>>,
                                             <<"reason", Text("User indicated they do not need housing help.")>> >>)]
        called == IF main_need_housing(req)
                  THEN Append(transport.calls, "find_top_apartments") ELSE transport.calls
    IN IF ~transport.ok
       THEN [ok |-> FALSE, error |-> transport.error, calls |-> transport.calls]
       ELSE IF ~housing.ok THEN [ok |-> FALSE, error |-> housing.error, calls |-> called]
       ELSE [ok |-> TRUE, value |-> DictSet(r3, "housing", housing.value), calls |-> called]

---------------------------------------------------------------------------
(* Bounds and input sets *)

\* flag strings are tried up to this many characters shorter or longer than required
MaxExtra == 1
\* a listings table is a block of at most MaxBlock rows ...
MaxBlock == 2
\* ... repeated at most MaxRepeat times
MaxRepeat == 6
\* budgets and listing prices range over 0..MaxPrice
MaxPrice == 3

BitStrings(n) == [1..n -> {"0", "1"}]

BadChars == {"2", "x"}

\* all 0/1 strings of length n; the all-0 and all-1 strings up to MaxExtra
\* characters shorter or longer; and strings of length n with one non-binary
\* character
FlagInputs(n) ==
    BitStrings(n)
    \cup {[i \in 1..k |-> b] : b \in {"0", "1"},
                               k \in (IF n > MaxExtra THEN n - MaxExtra ELSE 0)..(n + MaxExtra)}
    \cup {[[i \in 1..n |-> b] EXCEPT ![j] = c] : b \in {"0", "1"}, j \in 1..n, c \in BadChars}

\* the flag pairs a plan is requested with: every valid pair, and every
\* malformed string of either kind next to a valid and a malformed partner
PlanFlagPairs ==
    (BitStrings(2) \X BitStrings(6))
    \cup (FlagInputs(2) \X {<<"0", "1", "0", "0", "0", "1">>, <<"0", "1", "0">>})
    \cup ({<<"1", "1">>, <<"1", "x">>} \X FlagInputs(6))

BudgetStrings ==
    {<<"1", "5", "0", "0">>, <<"0">>, <<"-", "5">>, <<"+", "7">>, <<" ", "1", "2", " ">>,
     <<"1", "_", "0">>, <<>>, <<"a", "b">>, <<"1", "2", "a">>, <<"1", ".", "5">>,
     <<"-">>, <<"_", "1">>}

June == <<"j", "u", "n", "e">>
August == <<"a", "u", "g", "u", "s", "t">>

\* (origin, destination) pairs tried by the orchestrator
Routes == {<<<<"m", "a", "d", "i", "s", "o", "n", "w", "i">>,
             <<"s", "e", "a", "t", "t", "l", "e", "w", "a">>>>,
           <<<<"s", "e", "a", "t", "t", "l", "e", "w", "a">>,
             <<"S", "e", "a", "t", "t", "l", "e", "W", "A">>>>,
           <<<<"n", "e", "e", "n", "a", "h", "w", "i">>,
             <<"s", "e", "a", "t", "t", "l", "e">>>>}

\* the days on which a request may arrive: mid-month, the last day of a
\* month, the last day of February, December 31
Nows == {Date(2026, 11, 1), Date(2026, 11, 30), Date(2028, 2, 29), Date(2026, 12, 31)}

\* the service adds a day with timedelta: a month end and a year end
ServiceNows == {Date(2026, 11, 30), Date(2026, 12, 31)}

FlightOutcomes == {[ok |-> TRUE, miles |-> 1617, error |-> ""],
                   [ok |-> FALSE, miles |-> 0, error |-> "TypeError"]}
NotCalled == [ok |-> TRUE, miles |-> 0, error |-> "not called"]

\* what the job classifier may return for a field
Missing == [missing |-> TRUE]
TitleValues == {Missing, None, Str(<<>>), Str(<<"I", "n", "t", "e", "r", "n">>)}
LocationValues == {Missing, None, Str(SeattleWA)}
MonthValues == {Missing, None, Num(1), Num(5), Num(12)}
YearValues == {None, Num(2025), Num(2026)}

\* a dict with the given pairs, leaving out the Missing ones
RECURSIVE DictOfPresent(_)
DictOfPresent(kvs) ==
    IF kvs = <<>> THEN EmptyDict
    ELSE IF kvs[Len(kvs)][2] = Missing THEN DictOfPresent(SubSeq(kvs, 1, Len(kvs) - 1))
    ELSE DictSet(DictOfPresent(SubSeq(kvs, 1, Len(kvs) - 1)), kvs[Len(kvs)][1], kvs[Len(kvs)][2])

\* the classifier's structured answer (the fields the backend reads, and one it does not)
JobData(title, location, sm, sy, em, ey) ==
    DictOfPresent(<< <<"is_valid_job_posting", Bool(TRUE)>>, <<"job_title", title>>,
                     <<"location", location>>, <<"job_start_month", sm>>,
                     <<"job_start_year", sy>>, <<"job_end_month", em>>,
                     <<"job_end_year", ey>> >>)

JobDatas ==
    {JobData(t, l, sm, sy, em, ey) :
        t \in TitleValues, l \in LocationValues, sm \in MonthValues, sy \in YearValues,
        em \in MonthValues, ey \in YearValues}

\* what analyze_job_url may do inside a plan request
JobOutcomes ==
    {[ok |-> TRUE, error |-> "",
      value |-> JobData(Str(<<"I", "n", "t", "e", "r", "n">>), Str(SeattleWA),
                        Num(5), Num(2026), Num(8), Num(2026))],
     [ok |-> TRUE, error |-> "",
      value |-> JobData(None, Missing, Num(5), None, Missing, Num(2026))],
     [ok |-> FALSE, error |-> "LLM did not return valid JSON", value |-> EmptyDict]}
JobNotCalled == [ok |-> TRUE, error |-> "not called", value |-> EmptyDict]

JobUrls == {None, Str(<<>>), Text("https://jobs.example/1")}

---------------------------------------------------------------------------
(* Listings tables *)

\* the header write_listings_to_csv writes (without the columns nobody reads
\* except listingType), plus the listingWebsite column the enrichment adds
Header ==
    <<"id", "formattedAddress", "city", "state", "zipCode", "propertyType", "bedrooms",
      "bathrooms", "squareFootage", "yearBuilt", "status", "price", "listingType",
      "listingWebsite">>

\* one line of the file: the values of a line that stops after `filled`
\* columns are None from there on (csv.DictReader's restval)
Row(city, state, price, website, other, filled) ==
    LET value(f) ==
            CASE f = "city" -> Str(city)
              [] f = "state" -> Str(state)
              [] f = "price" -> Str(price)
              [] f = "listingWebsite" -> Str(website)
              [] f = "id" -> Str(<<"0">>)
              [] f = "formattedAddress" -> Text("1 Main St")
              [] OTHER -> Str(other)
    IN Dict([i \in 1..Len(Header) |->
               [k |-> Header[i], v |-> IF i <= filled THEN value(Header[i]) ELSE None]])

Seattle == <<"S", "e", "a", "t", "t", "l", "e">>
Url == <<"h", "t", "t", "p", ":", "/", "/", "a">>

RowKinds ==
    {Row(Seattle, <<"W", "A">>, <<"2">>, Url, <<"2">>, 14),
     Row(Seattle, <<"W", "A">>, <<"0">>, <<" ", " ">>, <<>>, 14),
     Row(<<" ", "s", "e", "a", "t", "t", "l", "e", " ">>, <<"w", "a">>, <<" ", "3", " ">>,
         <<>>, <<" ">>, 13),
     Row(Seattle, <<"O", "R">>, <<"1">>, Url, <<"2">>, 14),
     Row(<<"N", "e", "e", "n", "a", "h">>, <<"W", "I">>, <<"1">>, Url, <<"2">>, 14),
     Row(Seattle, <<"W", "A">>, <<>>, Url, <<"2">>, 14),
     Row(Seattle, <<"W", "A">>, <<"2">>, Url, <<"2">>, 11)}

\* a file without the enrichment has no listingWebsite column
DropWebsite(row) == Dict(SubSeq(row.d, 1, Len(row.d) - 1))

\* the block repeated `times` times; every line gets its own id
Table(block, times, enriched) ==
    [i \in 1..(Len(block) * times) |->
        LET row == DictSet(block[((i - 1) % Len(block)) + 1], "id", Str(NatToStr(i)))
        IN IF enriched THEN row ELSE DropWebsite(row)]

Blocks == UNION {[1..n -> RowKinds] : n \in 1..MaxBlock}

\* files of one block, and files long enough to hold about as many, and
\* more, matching lines than a lookup returns
Repeats == {1, MaxRepeat - 1, MaxRepeat}

HousingFiles ==
    {ListingsFile(Table(b, t, e)) : b \in Blocks, t \in Repeats, e \in BOOLEAN}

Budgets == 0..MaxPrice

\* the files the orchestrator is run against: none, a short one, and one with
\* more matching listings than a plan returns
PlanFiles ==
    {FileMissing,
     ListingsFile(Table(<<Row(Seattle, <<"W", "A">>, <<"2">>, Url, <<"2">>, 14),
                          Row(Seattle, <<"W", "A">>, <<"3">>, <<>>, <<>>, 14)>>, 1, TRUE)),
     ListingsFile(Table(<<Row(Seattle, <<"W", "A">>, <<"2">>, Url, <<"2">>, 14),
                          Row(Seattle, <<"W", "A">>, <<"1">>, <<>>, <<>>, 14)>>, 6, TRUE))}

---------------------------------------------------------------------------
(* Operations *)

Idle == op = "none"

NoArgs == [none |-> TRUE]

InitCalls ==
    /\ op = "none"
    /\ args = NoArgs
    /\ ret = NoArgs
    /\ calls = <<>>

\* no script has run: the global has its initial value, the files and
\* locals do not exist
NoScripts ==
    /\ input_csv = [exists |-> FALSE, rows |-> <<>>]
    /\ output_csv = [exists |-> FALSE, rows |-> <<>>]
    /\ rate_limit_hit = FALSE
    /\ fetched = <<>>
    /\ offset = 0

\* a data file that is not read, a model that is not imported
NotLoaded == [loaded |-> FALSE]

\* backend/transportation is not imported
NoModels ==
    /\ tickets = NotLoaded
    /\ air_model = NotLoaded
    /\ airports = NotLoaded
    /\ uscities = NotLoaded
    /\ rentals = NotLoaded
    /\ ground_model = NotLoaded
    /\ aliases = {}

InitCommon ==
    /\ InitCalls
    /\ NoModels
    /\ NoScripts

\* parse_move_request called on its own with arbitrary strings
CallParseMoveRequest ==
    /\ Idle
    /\ \E uh \in FlagInputs(2), tr \in FlagInputs(6), cost \in BudgetStrings :
          /\ args' = [uh |-> uh, tr |-> tr, cost |-> cost]
          /\ ret' = parse_move_request(<<"a">>, <<"b">>, June, August, uh, tr, cost)
    /\ op' = "parse_move_request"
    /\ UNCHANGED <<listings, calls, transportState, scriptState>>

PlanBudgets == {2}

\* GET /whatsthemove/{from}/{to}/{start}/{end}/{uh_mv_flags}/{transport_flags}/{max_cost}
GetMovePlan ==
    /\ Idle
    /\ \E route \in Routes, flags \in PlanFlagPairs, cost \in PlanBudgets, url \in JobUrls :
         LET uh == flags[1]
             tr == flags[2]
             valid == ~BadFlags(uh, 2) /\ ~BadFlags(tr, 6)
             modes == valid /\ tr[1] # "1"
         IN \E job \in (IF Truthy(url) /\ valid THEN JobOutcomes ELSE {JobNotCalled}),
               flight \in (IF modes /\ tr[6] = "1" THEN FlightOutcomes ELSE {NotCalled}),
               now \in (IF modes /\ uh[2] = "1" THEN ServiceNows ELSE {Date(2026, 11, 1)}) :
              LET in == [from_city |-> route[1], to_city |-> route[2],
                         start_month |-> June, end_month |-> August,
                         uh_mv_flags |-> uh, transport_flags |-> tr, max_cost |-> cost,
                         job_url |-> url, job |-> job, flight |-> flight, now |-> now]
              IN \E out \in {get_move_plan(in, listings)} :
                 /\ args' = in
                 /\ ret' = [status |-> out.status, body |-> out.body, error |-> out.error]
                 /\ calls' = out.calls
    /\ op' = "get_move_plan"
    /\ UNCHANGED <<listings, transportState, scriptState>>

\* what a scraper call may do: options, no options, or an exception
ScraperOutcomes(mode) ==
    {[ok |-> TRUE, error |-> "",
      value |-> DictOf(<< <<"provider", Text("uhaul")>>, <<"mode", Text(mode)>>,
                          <<"options", List(<<DictOf(<< <<"Price", Text("$29.95")>> >>)>>)>> >>)],
     [ok |-> TRUE, error |-> "",
      value |-> DictOf(<< <<"provider", Text("uhaul")>>, <<"mode", Text(mode)>>,
                          <<"options", List(<<>>)>> >>)],
     [ok |-> FALSE, error |-> "TimeoutException", value |-> EmptyDict]}
ScraperNotCalled == [ok |-> TRUE, error |-> "not called", value |-> EmptyDict]

MainJobInfos ==
    {None, JobData(Str(<<"I", "n", "t", "e", "r", "n">>), Str(SeattleWA),
                   Num(5), Num(2026), Num(8), Num(2026))}

\* build_move_plan of backend/main.py, as its terminal entry point calls it
MainBuildMovePlan ==
    /\ Idle
    /\ \E flags \in BitStrings(8), job_info \in MainJobInfos :
         LET modes == flags[1] # "1"
         IN \E truck \in (IF modes /\ flags[2] = "1"
                          THEN ScraperOutcomes("truck_rental") ELSE {ScraperNotCalled}),
               movers \in (IF modes /\ flags[7] = "1"
                           THEN ScraperOutcomes("moving_help") ELSE {ScraperNotCalled}),
               now \in (IF modes /\ flags[7] = "1" THEN Nows ELSE {Date(2026, 11, 1)}) :
              LET req == main_MoveRequest(<<"m", "a", "d", "i", "s", "o", "n", "w", "i">>,
                                          <<"s", "e", "a", "t", "t", "l", "e", "w", "a">>,
                                          June, August, flags, 2)
                  out == main_build_move_plan(req, job_info, listings, truck, movers, now)
              IN /\ args' = [req |-> req, job_info |-> job_info, truck |-> truck,
                             movers |-> movers, now |-> now]
                 /\ ret' = IF out.ok THEN [status |-> 200, body |-> out.value, error |-> ""]
                           ELSE [status |-> 500, body |-> None, error |-> out.error]
                 /\ calls' = out.calls
    /\ op' = "main_build_move_plan"
    /\ UNCHANGED <<listings, transportState, scriptState>>

\* build_job_summary on any answer of the classifier
CallBuildJobSummary ==
    /\ Idle
    /\ \E job_data \in JobDatas :
          /\ args' = [job_data |-> job_data]
          /\ ret' = build_job_summary(job_data)
    /\ op' = "build_job_summary"
    /\ UNCHANGED <<listings, calls, transportState, scriptState>>

HousingSlugs ==
    {<<"s", "e", "a", "t", "t", "l", "e", "w", "a">>,
     <<"s", "e", "a", "t", "t", "l", "e">>,
     <<"n", "e", "e", "n", "a", "h", "w", "i">>}

\* get_housing_options, and through it find_top_apartments, on the file on disk
GetHousingOptions ==
    /\ Idle
    /\ \E to_city \in HousingSlugs, budget \in Budgets :
         LET req == MoveRequest(<<"m", "a", "d", "i", "s", "o", "n", "w", "i">>, to_city,
                                June, August, <<"0", "0">>, <<"0", "0", "0", "0", "0", "0">>,
                                budget)
         IN /\ args' = [req |-> req]
            /\ \E out \in {get_housing_options(req, listings)} :
                  ret' = IF out.ok THEN [status |-> 200, body |-> out.value, error |-> ""]
                         ELSE [status |-> 500, body |-> None, error |-> out.error]
    /\ calls' = <<"find_top_apartments">>
    /\ op' = "get_housing_options"
    /\ UNCHANGED <<listings, transportState, scriptState>>

---------------------------------------------------------------------------
(* Specifications *)

\* the orchestrator: request parsing and both plan builders
Init == InitCommon /\ listings \in PlanFiles
Next == CallParseMoveRequest \/ GetMovePlan \/ MainBuildMovePlan
Spec == Init /\ [][Next]_vars

\* the job summary builder
InitJob == InitCommon /\ listings = FileMissing
NextJob == CallBuildJobSummary
SpecJob == InitJob /\ [][NextJob]_vars

\* the listings selector
InitHousing == InitCommon /\ listings \in HousingFiles \cup {FileMissing}
NextHousing == GetHousingOptions
SpecHousing == InitHousing /\ [][NextHousing]_vars

---------------------------------------------------------------------------
(* Properties of request parsing and of the orchestrator (checked under Spec) *)

IsBits(flags, n) == Len(flags) = n /\ \A i \in 1..Len(flags) : flags[i] \in {"0", "1"}

Served == op = "get_move_plan"
ServedMain == op = "main_build_move_plan"

\* the request of a served plan had well-formed flag strings
ValidRequest == IsBits(args.uh_mv_flags, 2) /\ IsBits(args.transport_flags, 6)

ModeKeys == {"uhaul_truck", "own_car", "rental_car", "bus", "plane", "moving_help"}

ModeEstimators ==
    {"estimate_uhaul_truck_cost", "estimate_own_car_cost", "estimate_rental_car_cost",
     "estimate_bus_cost", "estimate_plane_cost", "estimate_moving_help_cost"}

Transportation == DictGet(ret.body, "transportation")

\* C1: parse_move_request returns a MoveRequest (carrying the flag strings and
\* the parsed budget) exactly when the first flag string is 2 characters of
\* 0/1, the second is 6 characters of 0/1 and the budget string parses as an
\* integer, and raises otherwise; get_move_plan answers 400 exactly for
\* malformed flags, and then no collaborator at all has been called.
C1_ParseValidation ==
    /\ op = "parse_move_request" =>
          /\ ret.ok <=> (IsBits(args.uh, 2) /\ IsBits(args.tr, 6) /\ PyInt(args.cost).ok)
          /\ ret.ok => /\ ret.req.uhaul_and_moving_flags = args.uh
                       /\ ret.req.transport_flags = args.tr
                       /\ ret.req.apartment_max_cost = PyInt(args.cost).n
    /\ Served =>
          /\ ret.status = 400 <=> ~ValidRequest
          /\ ret.status = 400 => calls = <<>> /\ IsNone(ret.body)

\* a malformed request that carried a job URL was rejected
C1_Witness ==
    /\ Served /\ ret.status = 400 /\ Truthy(args.job_url)
    /\ IsBits(args.uh_mv_flags, 2) /\ ~IsBits(args.transport_flags, 6)

\* C2: when the have-arrangements bit is set, the transportation section has
\* no per-mode key and no per-mode estimator was invoked, whatever the other
\* bits are; in both variants of build_move_plan.
C2_SkipMeansNoModes ==
    /\ (Served /\ ValidRequest /\ args.transport_flags[1] = "1") =>
          /\ Range(calls) \cap ModeEstimators = {}
          /\ ret.status = 200 =>
                /\ Range(DictKeys(Transportation)) \cap ModeKeys = {}
                /\ DictGet(Transportation, "skipped") = Bool(TRUE)
    /\ (ServedMain /\ args.req.flags[1] = "1") =>
          /\ Range(calls) \cap ModeEstimators = {}
          /\ ret.status = 200 =>
                /\ Range(DictKeys(Transportation)) \cap ModeKeys = {}
                /\ DictGet(Transportation, "skipped") = Bool(TRUE)

\* a plan was returned for flags 11 / 111111
C2_Witness ==
    /\ Served /\ ret.status = 200
    /\ args.uh_mv_flags = <<"1", "1">>
    /\ args.transport_flags = <<"1", "1", "1", "1", "1", "1">>

\* the bit of the request that selects each mode key
ModeBit(key) ==
    CASE key = "uhaul_truck" -> args.uh_mv_flags[1]
      [] key = "moving_help" -> args.uh_mv_flags[2]
      [] key = "own_car" -> args.transport_flags[2]
      [] key = "rental_car" -> args.transport_flags[4]
      [] key = "bus" -> args.transport_flags[5]
      [] key = "plane" -> args.transport_flags[6]

\* C3: when the have-arrangements bit is clear, skipped is false and each of
\* the six mode keys is in the transportation section, holding a result
\* (a dict, not null), exactly when its bit is 1; the section has no other
\* key, so 00 / 000000 gives skipped = false alone.
C3_ModeKeysFollowBits ==
    (Served /\ ret.status = 200 /\ args.transport_flags[1] = "0") =>
        /\ DictGet(Transportation, "skipped") = Bool(FALSE)
        /\ \A key \in ModeKeys :
              /\ HasKey(Transportation, key) <=> ModeBit(key) = "1"
              /\ HasKey(Transportation, key) => IsDict(DictGet(Transportation, key))
        /\ Range(DictKeys(Transportation)) \subseteq ModeKeys \cup {"skipped"}
        /\ (args.uh_mv_flags = <<"0", "0">>
            /\ args.transport_flags = <<"0", "0", "0", "0", "0", "0">>)
              => DictKeys(Transportation) = <<"skipped">>

\* a plan with some but not all modes selected
C3_Witness ==
    /\ Served /\ ret.status = 200
    /\ args.uh_mv_flags = <<"0", "1">>
    /\ args.transport_flags = <<"0", "0", "1", "0", "1", "1">>
    /\ HasKey(Transportation, "plane") /\ ~HasKey(Transportation, "uhaul_truck")

\* C4: the top-level keys of every returned plan are job_summary (only when
\* job_info was supplied), request, transportation, housing, in that order.
C4_TopLevelKeyOrder ==
    /\ (Served /\ ret.status = 200) =>
          DictKeys(ret.body) =
             (IF Truthy(args.job_url) THEN <<"job_summary">> ELSE <<>>)
             \o <<"request", "transportation", "housing">>
    /\ (ServedMain /\ ret.status = 200) =>
          DictKeys(ret.body) =
             (IF ~IsNone(args.job_info) THEN <<"job_summary">> ELSE <<>>)
             \o <<"request", "transportation", "housing">>

\* a plan that starts with a job summary
C4_Witness ==
    /\ Served /\ ret.status = 200 /\ Truthy(args.job_url) /\ args.job.ok
    /\ DictKeys(ret.body)[1] = "job_summary"

\* what the same request gets without a job URL
WithoutJobUrl == get_move_plan([args EXCEPT !.job_url = None, !.job = JobNotCalled], listings)

\* C5: when analyze_job_url raises, the request is answered as it is without
\* a job URL: a plan comes back whenever one does without the URL, and its
\* request, transportation and housing sections are the same.
C5_JobFailureKeepsPlan ==
    (Served /\ ValidRequest /\ Truthy(args.job_url) /\ ~args.job.ok) =>
        /\ ret.status = WithoutJobUrl.status
        /\ ret.status = 200 =>
              \A key \in {"request", "transportation", "housing"} :
                  /\ HasKey(ret.body, key)
                  /\ DictGet(ret.body, key) = DictGet(WithoutJobUrl.body, key)

\* a plan with modes and housing was returned although the job analysis raised
C5_Witness ==
    /\ Served /\ ret.status = 200 /\ Truthy(args.job_url) /\ ~args.job.ok
    /\ HasKey(Transportation, "plane")
    /\ DictGet(DictGet(ret.body, "housing"), "results_count") = Num(10)

\* the failure text appears as a value of the plan or of one of its sections
ErrorNoteVisible(body, note) ==
    \E i \in 1..Len(body.d) :
        \/ body.d[i].v = note
        \/ /\ IsDict(body.d[i].v)
           /\ \E j \in 1..Len(body.d[i].v.d) : body.d[i].v.d[j].v = note

\* C6: when job classification fails during a plan build, the failure reason
\* recorded by get_move_plan is visible in the returned plan.
C6_JobErrorVisible ==
    (Served /\ ret.status = 200 /\ Truthy(args.job_url) /\ ~args.job.ok) =>
        ErrorNoteVisible(ret.body, Text(args.job.error))

\* C10: a collaborator failure inside build_move_plan (listings file missing,
\* truck scraper, moving-help scraper) does not stop the plan from being
\* returned, in either variant.
C10_CollaboratorFailureCaught ==
    /\ (Served /\ ValidRequest) => ret.status = 200
    /\ ServedMain => ret.status = 200

---------------------------------------------------------------------------
(* Properties of build_job_summary (checked under SpecJob) *)

SummaryKeys == <<"job_title", "move_to_destination", "start_month", "end_month",
                 "duration_months">>

\* the classifier determined the field: the key is there and is not null
Determined(key) == ~IsNone(DictGet(args.job_data, key))

Given(key) == DictGet(args.job_data, key).n

\* text is "M/YYYY" for this month and year: digits, one slash, digits, which
\* read back as the two numbers
IsMonthYear(text, month, year) ==
    /\ Contains(text, "/")
    /\ \A i \in 1..Len(text) : IsDigit(text[i]) \/ i = FirstIndex(text, "/")
    /\ PyInt(SplitOnce(text, "/")[1]) = [ok |-> TRUE, n |-> month]
    /\ PyInt(SplitOnce(text, "/")[2]) = [ok |-> TRUE, n |-> year]

\* text is the decimal string of n: an optional minus sign and digits without
\* a leading zero, which read back as n
IsDecimalOf(text, n) ==
    /\ text # <<>>
    /\ \A i \in 1..Len(text) : IsDigit(text[i]) \/ (i = 1 /\ text[i] = "-" /\ Len(text) > 1)
    /\ Len(text) > 1 => text[IF text[1] = "-" THEN 2 ELSE 1] # "0"
    /\ PyInt(text) = [ok |-> TRUE, n |-> n]

\* C7: build_job_summary returns exactly the five summary keys in order; an
\* undetermined title, location, start or end is "NA"; a determined start or
\* end is "M/YYYY"; duration_months is "NA" unless all four date fields are
\* determined, and then the decimal string of
\* (end_year - start_year) * 12 + (end_month - start_month).
C7_JobSummaryShape ==
    op = "build_job_summary" =>
        /\ DictKeys(ret) = SummaryKeys
        /\ DictGet(ret, "job_title") =
              (IF Determined("job_title") /\ DictGet(args.job_data, "job_title").s # <<>>
               THEN DictGet(args.job_data, "job_title") ELSE Str(NA))
        /\ DictGet(ret, "move_to_destination") =
              (IF Determined("location") THEN DictGet(args.job_data, "location") ELSE Str(NA))
        /\ IF Determined("job_start_month") /\ Determined("job_start_year")
           THEN IsMonthYear(DictGet(ret, "start_month").s,
                            Given("job_start_month"), Given("job_start_year"))
           ELSE DictGet(ret, "start_month") = Str(NA)
        /\ IF Determined("job_end_month") /\ Determined("job_end_year")
           THEN IsMonthYear(DictGet(ret, "end_month").s,
                            Given("job_end_month"), Given("job_end_year"))
           ELSE DictGet(ret, "end_month") = Str(NA)
        /\ IF /\ Determined("job_start_month") /\ Determined("job_start_year")
              /\ Determined("job_end_month") /\ Determined("job_end_year")
           THEN IsDecimalOf(DictGet(ret, "duration_months").s,
                            (Given("job_end_year") - Given("job_start_year")) * 12
                            + (Given("job_end_month") - Given("job_start_month")))
           ELSE DictGet(ret, "duration_months") = Str(NA)

\* a summary for December 2025 to May 2026 with no title: five months
C7_Witness ==
    /\ op = "build_job_summary"
    /\ ~Determined("job_title") /\ Determined("location")
    /\ DictGet(ret, "start_month") = Str(<<"1", "2", "/", "2", "0", "2", "5">>)
    /\ DictGet(ret, "end_month") = Str(<<"5", "/", "2", "0", "2", "6">>)
    /\ DictGet(ret, "duration_months") = Str(<<"5">>)

---------------------------------------------------------------------------
(* Properties of the listings selector (checked under SpecHousing) *)

Housed == op = "get_housing_options" /\ ret.status = 200

Apartments == DictGet(ret.body, "apartments").l

\* the destination the request names, as "City, ST" or as a bare city
Destination == slug_to_city_state(args.req.to_city_slug)

\* text compared without case or surrounding blanks
Folded(text) == Lower(Strip(text))

\* the city and the state the destination names (no state: the empty string)
DestinationParts ==
    CHOOSE parts \in
        {IF Contains(dest, ",")
         THEN [city |-> Folded(SplitOnce(dest, ",")[1]), state |-> Folded(SplitOnce(dest, ",")[2])]
         ELSE [city |-> Folded(dest), state |-> <<>>] : dest \in {Destination}} : TRUE

\* the listing is in the destination city, and in its state when the
\* destination names one
InDestination(row, dest) ==
    /\ IsStr(DictGet(row, "city")) /\ Folded(DictGet(row, "city").s) = dest.city
    /\ dest.state # <<>> =>
          (IsStr(DictGet(row, "state")) /\ Folded(DictGet(row, "state").s) = dest.state)

\* float() of the price of every line of the file: [ok, n], ok false where
\* the line has no price
Prices == [i \in 1..Len(listings.rows) |-> PyFloat(DictGet(listings.rows[i], "price"))]

\* the lines of the file that are in the destination at a price within budget
Matching ==
    CHOOSE lines \in
        {{i \in 1..Len(listings.rows) :
             /\ prices[i].ok
             /\ prices[i].n <= args.req.apartment_max_cost
             /\ InDestination(listings.rows[i], dest)} :
         dest \in {DestinationParts}, prices \in {Prices}} : TRUE

\* the ids of the lines of the file
Ids == [i \in 1..Len(listings.rows) |-> DictGet(listings.rows[i], "id")]

\* the lines the apartments of the answer came from, in answer order
Sources ==
    CHOOSE s \in {[k \in 1..Len(apartments) |->
                      CHOOSE i \in 1..Len(ids) : ids[i] = DictGet(apartments[k], "id")] :
                     apartments \in {Apartments}, ids \in {Ids}} : TRUE

Min(a, b) == IF a < b THEN a ELSE b

\* C8: results_count is min(10, n) for n the number of listings in the
\* destination priced within the budget; the apartments are that many of
\* those listings, the cheapest ones, in ascending price order.
C8_HousingCheapestTen ==
    Housed =>
        \A matching \in {Matching}, sources \in {Sources}, prices \in {Prices},
           apartments \in {Apartments} :
            /\ DictGet(ret.body, "results_count") = Num(Min(10, Cardinality(matching)))
            /\ Len(sources) = Min(10, Cardinality(matching))
            /\ Range(sources) \subseteq matching
            /\ Cardinality(Range(sources)) = Len(sources)
            /\ \A k \in 1..Len(sources) :
                  /\ DictGet(apartments[k], "price") = Num(prices[sources[k]].n)
                  /\ prices[sources[k]].n <= args.req.apartment_max_cost
                  /\ k > 1 => prices[sources[k - 1]].n <= prices[sources[k]].n
            /\ \A i \in matching \ Range(sources) : \A j \in Range(sources) :
                  prices[j].n <= prices[i].n

\* more than ten listings matched, at different prices, and ten came back
C8_Witness ==
    /\ Housed
    /\ DictGet(ret.body, "results_count") = Num(10)
    /\ DictGet(Apartments[1], "price").n < DictGet(Apartments[10], "price").n
    /\ Cardinality(Matching) > 10

IsBlank(text) == \A i \in 1..Len(text) : text[i] = " "

\* the field is missing, None or blank in the source line
Unfilled(row, field) ==
    \/ ~HasKey(row, field)
    \/ IsNone(DictGet(row, field))
    \/ IsStr(DictGet(row, field)) /\ IsBlank(DictGet(row, field).s)

\* C9: every returned entry has exactly the 13 OUTPUT_FIELDS keys; a field
\* other than price is "NA" when it is missing, None or blank in the source
\* line and the source value otherwise; price is always a number.
C9_EntriesNormalized ==
    Housed =>
        \A apartments \in {Apartments}, sources \in {Sources} : \A k \in 1..Len(apartments) :
            \A entry \in {apartments[k]}, source \in {listings.rows[sources[k]]} :
               /\ DictKeys(entry) = OUTPUT_FIELDS
               /\ \A f \in Range(OUTPUT_FIELDS) \ {"price"} :
                     DictGet(entry, f) =
                        (IF Unfilled(source, f) THEN Str(NA) ELSE DictGet(source, f))
               /\ IsNum(DictGet(entry, "price"))
               /\ DictGet(entry, "price").n = PyFloat(DictGet(source, "price")).n

\* an entry from a file without the listingWebsite column, with a blank
\* field turned into "NA" and the city kept as written
C9_Witness ==
    /\ Housed
    /\ \E k \in 1..Len(Apartments) :
          \E source \in {listings.rows[Sources[k]]} :
             /\ ~HasKey(source, "listingWebsite")
             /\ DictGet(Apartments[k], "listingWebsite") = Str(NA)
             /\ DictGet(source, "bedrooms") = Str(<<" ">>)
             /\ DictGet(Apartments[k], "bedrooms") = Str(NA)
             /\ DictGet(Apartments[k], "city") = Str(<<" ", "s", "e", "a", "t", "t", "l", "e", " ">>)
             /\ DictGet(Apartments[k], "price") = Num(3)

---------------------------------------------------------------------------
(* Floating-point values of pandas / numpy, as extended rationals:         *)
(* num/den with den >= 0 in lowest terms; den = 0 is inf (num = 1),        *)
(* -inf (num = -1) or NaN (num = 0), the results numpy gives for a         *)
(* division by zero and for a statistic of nothing.                        *)

Abs(i) == IF i < 0 THEN -i ELSE i

Sign(i) == IF i < 0 THEN -1 ELSE IF i > 0 THEN 1 ELSE 0

RECURSIVE GCD(_, _)
GCD(a, b) == IF b = 0 THEN a ELSE GCD(b, a % b)

Float(num, den) ==
    IF den = 0 THEN [num |-> Sign(num), den |-> 0]
    ELSE LET g == GCD(Abs(num), Abs(den))
         IN [num |-> (Sign(den) * num) \div g, den |-> Abs(den) \div g]

NaN == [num |-> 0, den |-> 0]
One == [num |-> 1, den |-> 1]

IsFloat(v) == DOMAIN v = {"num", "den"}
IsNaN(v) == IsFloat(v) /\ v.den = 0 /\ v.num = 0
IsFinite(v) == IsFloat(v) /\ v.den > 0

FMul(a, b) == Float(a.num * b.num, a.den * b.den)
FDiv(a, b) == Float(a.num * b.den * (IF b.num < 0 THEN -1 ELSE 1), a.den * Abs(b.num))
FAdd(a, b) == Float(a.num * b.den + b.num * a.den, a.den * b.den)
FLess(a, b) == a.num * b.den < b.num * a.den

\* insert into an ascending list
RECURSIVE FInsert(_, _)
FInsert(sorted, x) ==
    IF sorted = <<>> THEN <<x>>
    ELSE IF FLess(x, Head(sorted)) THEN <<x>> \o sorted
    ELSE <<Head(sorted)>> \o FInsert(Tail(sorted), x)

RECURSIVE FSort(_)
FSort(values) ==
    IF values = <<>> THEN <<>> ELSE FInsert(FSort(Tail(values)), Head(values))

\* Series.median(): NaN for no values, the middle value, or the mean of the
\* two middle values
Median(values) ==
    IF values = <<>> THEN NaN
    ELSE \* bound once
         CHOOSE m \in
            {IF Len(sorted) % 2 = 1 THEN sorted[(Len(sorted) + 1) \div 2]
             ELSE FDiv(FAdd(sorted[Len(sorted) \div 2], sorted[Len(sorted) \div 2 + 1]),
                       Float(2, 1)) : sorted \in {FSort(values)}} : TRUE

---------------------------------------------------------------------------
(* backend/transportation/air_model.py *)

\* a CSV file that exists, as the records pandas reads from it
CsvFile(rows) == [exists |-> TRUE, rows |-> rows]

\* an empty cell of a CSV file, as pandas reads it
EmptyCell == [empty |-> TRUE]

\* pd.to_numeric(cell, errors="coerce"): the number, or NaN for an empty cell
\* and for text that is not a number
ToNumericCoerce(cell) == IF IsFloat(cell) THEN cell ELSE NaN

\* the six conditions of the cleaning mask
PassesMask(t) ==
    /\ t.DOLLAR_CRED = 1
    /\ t.BULK_FARE = 0
    /\ t.ITIN_FARE > 0
    /\ t.MILES_FLOWN > 0
    /\ t.ITIN_GEO_TYPE = 1
    /\ t.ONLINE = 1

\* the cleaned frame: masked, ITIN_YIELD coerced, rows without a yield dropped
CleanedFrame(rows) ==
    LET masked == SelectSeq(rows, PassesMask)
        coerced == [i \in 1..Len(masked) |->
                       [masked[i] EXCEPT !.ITIN_YIELD = ToNumericCoerce(@)]]
    IN SelectSeq(coerced, LAMBDA t : ~IsNaN(t.ITIN_YIELD))

Yields(df) == [i \in 1..Len(df) |-> df[i].ITIN_YIELD]

\* the values of a column that occur in the frame
ColumnValues(df, field_name) == {df[i][field_name] : i \in 1..Len(df)}

\* df.groupby(field_name)["ITIN_YIELD"].median(), one group
GroupMedian(df, field_name, key) ==
    Median(Yields(SelectSeq(df, LAMBDA t : t[field_name] = key)))

\* make_multiplier: {field value: median yield of the group / base_cpm}
make_multiplier(df, base_cpm, field_name) ==
    [key \in ColumnValues(df, field_name) |->
        FDiv(GroupMedian(df, field_name, key), base_cpm)]

RECURSIVE SumSeq(_)
SumSeq(values) == IF values = <<>> THEN 0 ELSE Head(values) + SumSeq(Tail(values))

\* df.groupby("REPORTING_CARRIER")["PASSENGERS"].sum(), one carrier
PassengerCount(df, carrier) ==
    LET group == SelectSeq(df, LAMBDA t : t.REPORTING_CARRIER = carrier)
    IN SumSeq([i \in 1..Len(group) |-> group[i].PASSENGERS])

\* sort_values(ascending=False): every order of the carriers with the totals
\* descending; the order of carriers with equal totals is the sort's choice
RECURSIVE DescendingOrders(_, _)
DescendingOrders(carriers, counts) ==
    IF carriers = {} THEN {<<>>}
    ELSE LET largest == {c \in carriers : \A other \in carriers : counts[other] <= counts[c]}
         IN UNION {{<<c>> \o rest : rest \in DescendingOrders(carriers \ {c}, counts)} :
                     c \in largest}

\* how many carriers the public table keeps
TopCarriers == 8

\* the whole ranking, nothing cut off
Head8_All(order) == order

\* carrier_counts.head(8).index
Head8(order) == SubSeq(order, 1, IF Len(order) < TopCarriers THEN Len(order) ELSE TopCarriers)

\* AirModel.__init__ once the carrier order is known
AirModelWith(df, base_cpm, top_8_carriers) ==
    LET carrier_mult_full == make_multiplier(df, base_cpm, "REPORTING_CARRIER")
    IN [ok |-> TRUE,
        df |-> df,
        base_cpm |-> base_cpm,
        carrier_mult_full |-> carrier_mult_full,
        top_8_carriers |-> top_8_carriers,
        carrier_mult |-> [c \in Range(top_8_carriers) |-> carrier_mult_full[c]],
        dist_mult |-> make_multiplier(df, base_cpm, "DISTANCE_GROUP"),
        roundtrip_mult |-> make_multiplier(df, base_cpm, "ROUNDTRIP")]

\* AirModel(csv_path): the instances construction can produce, or the error
\* pd.read_csv raises for a missing file
AirModel(csv) ==
    IF ~csv.exists THEN {[ok |-> FALSE, error |-> "FileNotFoundError"]}
    ELSE LET df == CleanedFrame(csv.rows)
             carriers == ColumnValues(df, "REPORTING_CARRIER")
             counts == [c \in carriers |-> PassengerCount(df, c)]
         IN {AirModelWith(df, Median(Yields(df)), Head8(order)) :
                order \in DescendingOrders(carriers, counts)}

\* carrier code -> display name
carrier_names ==
    [c \in {"HA", "WN", "AS", "UA", "B6", "DL", "AA", "F9"} |->
        CASE c = "HA" -> "Hawaiian Airlines"
          [] c = "WN" -> "Southwest Airlines"
          [] c = "AS" -> "Alaska Airlines"
          [] c = "UA" -> "United Airlines"
          [] c = "B6" -> "JetBlue Airways"
          [] c = "DL" -> "Delta Air Lines"
          [] c = "AA" -> "American Airlines"
          [] c = "F9" -> "Frontier Airlines"]

\* the width of a distance band, in miles
BandMiles == 500

\* num_groups = max(1, int((max_distance - 1) // 500) + 1)
num_groups(max_distance) ==
    LET n == ((max_distance - 1) \div BandMiles) + 1
    IN IF n < 1 THEN 1 ELSE n

\* f"{low}-{high}"
range_label(group) ==
    NatToStr((group - 1) * BandMiles) \o <<"-">> \o NatToStr(group * BandMiles - 1)

\* a distance group without a multiplier counted as free
GetOr_ZeroDefault(table, key) == IF key \in DOMAIN table THEN table[key] ELSE Float(0, 1)

\* table.get(key, 1.0)
GetOr(table, key) == IF key \in DOMAIN table THEN table[key] ELSE One

\* price_for_distance: {range label: {carrier name: price per mile}}
price_for_distance(self, max_distance) ==
    LET carrier_results(group) ==
            LET dist_mult_val == GetOr(self.dist_mult, group)
            IN Dict([i \in 1..Len(self.top_8_carriers) |->
                       LET carrier == self.top_8_carriers[i]
                           carrier_name == IF carrier \in DOMAIN carrier_names
                                           THEN carrier_names[carrier] ELSE carrier
                           carrier_mult_val == GetOr(self.carrier_mult, carrier)
                       IN [k |-> carrier_name,
                           v |-> FMul(FMul(self.base_cpm, dist_mult_val), carrier_mult_val)]])
    IN Dict([group \in 1..num_groups(max_distance) |->
               [k |-> range_label(group), v |-> carrier_results(group)]])

\* AirModel.get_all_multipliers: float(base_cpm) and a dict(...) copy of
\* each multiplier table; the tables hold floats only
AirModel_get_all_multipliers(self) ==
    [BaseCPM |-> self.base_cpm,
     CarrierMultiplier |-> self.carrier_mult,
     DistanceGroupMultiplier |-> self.dist_mult,
     RoundTripMultiplier |-> self.roundtrip_mult]

---------------------------------------------------------------------------
(* The fare model: inputs, operations and specification *)

\* a ticket file holds at most MaxTickets usable tickets besides the fixed block
MaxTickets == 2
\* trips of up to MaxBand whole bands are priced
MaxBand == 2

\* a ticket that passes the mask
Ticket(carrier, passengers, yield, group, roundtrip) ==
    [DOLLAR_CRED |-> 1, BULK_FARE |-> 0, ITIN_FARE |-> 100, MILES_FLOWN |-> 400,
     ITIN_GEO_TYPE |-> 1, ONLINE |-> 1, ITIN_YIELD |-> yield,
     REPORTING_CARRIER |-> carrier, PASSENGERS |-> passengers,
     DISTANCE_GROUP |-> group, ROUNDTRIP |-> roundtrip]

\* nine carriers, one ticket each; the last two carry equally many passengers
NineCarriers ==
    <<Ticket("WN", 9, Float(1, 5), 1, 0), Ticket("DL", 8, Float(1, 4), 1, 1),
      Ticket("AA", 7, Float(3, 10), 2, 1), Ticket("UA", 6, Float(1, 4), 2, 0),
      Ticket("AS", 5, Float(2, 5), 1, 1), Ticket("B6", 4, Float(1, 2), 2, 1),
      Ticket("HA", 3, Float(3, 5), 5, 1), Ticket("F9", 2, Float(1, 10), 1, 0),
      Ticket("NK", 2, Float(1, 10), 2, 0)>>

\* tickets that pass the mask and have a numeric yield: positive, zero, negative
UsableTickets ==
    {Ticket("AA", 1, Float(1, 4), 1, 0),
     Ticket("NK", 3, Float(1, 2), 2, 1),
     Ticket("G4", 1, Float(3, 4), 3, 1),
     Ticket("AA", 1, Float(0, 1), 1, 1),
     Ticket("DL", 1, Float(-1, 4), 2, 0)}

\* tickets a cleaning step has to drop: one per mask condition, and yields
\* that are not numbers
UnusableTickets ==
    LET t == Ticket("G4", 20, Float(9, 1), 4, 1)
    IN {[t EXCEPT !.DOLLAR_CRED = 0], [t EXCEPT !.BULK_FARE = 1], [t EXCEPT !.ITIN_FARE = 0],
        [t EXCEPT !.MILES_FLOWN = 0], [t EXCEPT !.ITIN_GEO_TYPE = 2], [t EXCEPT !.ONLINE = 0],
        [t EXCEPT !.ITIN_YIELD = EmptyCell], [t EXCEPT !.ITIN_YIELD = Str(<<"x">>)]}

TicketFiles ==
    {FileMissing} \cup
    {CsvFile(block \o usable \o unusable) :
        block \in {<<>>, NineCarriers},
        usable \in UNION {[1..n -> UsableTickets] : n \in 0..MaxTickets},
        unusable \in {<<>>} \cup {<<t>> : t \in UnusableTickets}}

\* trip lengths around the band edges, and the default of price_for_distance
MaxDistances ==
    {m \in {k * BandMiles + j : k \in 0..MaxBand, j \in {-1, 0, 1}} : m >= 0} \cup {6000}

\* `air_model = AirModel()` at import
ImportAirModel ==
    /\ Idle
    /\ air_model = NotLoaded
    /\ \E self \in AirModel(tickets) :
          /\ air_model' = self
          /\ ret' = [ok |-> self.ok]
    /\ op' = "AirModel"
    /\ args' = NoArgs
    /\ calls' = <<"read_csv">>
    /\ UNCHANGED <<listings, tickets, airports, uscities, rentals, ground_model, aliases, scriptState>>

\* air_model.price_for_distance(max_distance)
PriceForDistance ==
    /\ air_model # NotLoaded
    /\ air_model.ok
    /\ op # "price_for_distance"
    /\ \E max_distance \in MaxDistances :
          /\ args' = [max_distance |-> max_distance]
          /\ ret' = price_for_distance(air_model, max_distance)
    /\ op' = "price_for_distance"
    /\ UNCHANGED <<listings, calls, transportState, scriptState>>

\* air_model.get_all_multipliers(): every table of the snapshot is a new dict
GetAllAirMultipliers ==
    /\ air_model # NotLoaded
    /\ air_model.ok
    /\ ret' = AirModel_get_all_multipliers(air_model)
    /\ op' = "AirModel.get_all_multipliers"
    /\ args' = NoArgs
    /\ aliases' = {}
    /\ UNCHANGED <<listings, calls, tickets, air_model, airports, uscities, rentals, ground_model, scriptState>>

InitAir ==
    /\ InitCalls
    /\ listings = FileMissing
    /\ tickets \in TicketFiles
    /\ air_model = NotLoaded
    /\ airports = NotLoaded
    /\ uscities = NotLoaded
    /\ rentals = NotLoaded
    /\ ground_model = NotLoaded
    /\ aliases = {}
    /\ NoScripts
NextAir == ImportAirModel \/ PriceForDistance
SpecAir == InitAir /\ [][NextAir]_vars

---------------------------------------------------------------------------
(* Properties of the fare model (SpecAir) *)

Priced == op = "price_for_distance"

\* the bands of the returned table, in order
Bands == ret.d

\* C11: the distance bucket of a trip of m miles, floor((m-1)/500) + 1, is the
\* band that holds m: for every m >= 0 the bucket k has
\* 500*(k-1) <= m <= 500*k - 1 (so 499 -> 1, 500 -> 2, 999 -> 2, 1000 -> 3).
C11_DistanceBucket ==
    Priced =>
        LET m == args.max_distance
            k == Len(Bands)
        IN /\ 500 * (k - 1) <= m
           /\ m <= 500 * k - 1

\* the name a carrier is listed under
NameOf(carrier) == IF carrier \in DOMAIN carrier_names THEN carrier_names[carrier] ELSE carrier

\* the carriers of the public multiplier table
Exposed == Range(air_model.top_8_carriers)

\* the multiplier a table contributes for a key: its entry, or 1.0 without one
Contribution(table, key) == IF key \in DOMAIN table THEN table[key] ELSE One

\* C12: for every distance band and every exposed carrier the per-mile price
\* is base_cpm * distance multiplier * carrier multiplier, a band or carrier
\* without an entry contributing exactly 1.0; every band lists every exposed
\* carrier, so no band or carrier makes the estimate fail.
C12_PricePerMile ==
    Priced =>
        /\ Len(Bands) >= 1
        /\ \A g \in 1..Len(Bands) :
              /\ Bands[g].k = range_label(g)
              /\ {Bands[g].v.d[i].k : i \in 1..Len(Bands[g].v.d)} = {NameOf(c) : c \in Exposed}
              /\ \A c \in Exposed :
                    DictGet(Bands[g].v, NameOf(c)) =
                        FMul(FMul(air_model.base_cpm, Contribution(air_model.dist_mult, g)),
                             Contribution(air_model.carrier_mult, c))

\* a band no ticket falls in is priced at base_cpm * 1.0 * carrier multiplier
C12_Witness ==
    /\ Priced
    /\ \E g \in 1..Len(Bands) : \E c \in Exposed :
          /\ g \notin DOMAIN air_model.dist_mult
          /\ IsFinite(air_model.base_cpm) /\ air_model.base_cpm.num > 0
          /\ air_model.carrier_mult[c] # One
          /\ DictGet(Bands[g].v, NameOf(c)) = FMul(air_model.base_cpm, air_model.carrier_mult[c])

\* construction has run and produced an instance
Built == "ok" \in DOMAIN air_model /\ air_model.ok

\* construction has run and raised
ConstructionFailed == "ok" \in DOMAIN air_model /\ ~air_model.ok

\* the records the instance was fitted on (self.df)
Retained == air_model.df

\* a ticket with all validity flags and a positive numeric yield and mileage
Valid(t) ==
    /\ t.DOLLAR_CRED = 1
    /\ t.BULK_FARE = 0
    /\ t.ITIN_FARE > 0
    /\ t.ITIN_GEO_TYPE = 1
    /\ t.ONLINE = 1
    /\ IsFinite(t.ITIN_YIELD) /\ t.ITIN_YIELD.num > 0
    /\ t.MILES_FLOWN > 0

ValidTickets == SelectSeq(tickets.rows, Valid)

\* C13: constructing the fare model from a dataset in which no record passes
\* the validity filter fails: construction raises and no instance with a
\* base cost-per-mile exists.
C13_EmptyDatasetFails ==
    (op = "AirModel" /\ tickets.exists /\ ValidTickets = <<>>) => ConstructionFailed

\* the median yield of the retained records whose column `field` is `key`
MedianWhere(field, key) ==
    Median(Yields(SelectSeq(Retained, LAMBDA t : t[field] = key)))

\* the three multiplier tables built by make_multiplier, with their columns
MultiplierTables ==
    <<[table |-> air_model.carrier_mult_full, column |-> "REPORTING_CARRIER"],
      [table |-> air_model.dist_mult, column |-> "DISTANCE_GROUP"],
      [table |-> air_model.roundtrip_mult, column |-> "ROUNDTRIP"]>>

\* the table holds, for every value of its column among the retained records,
\* the median yield of the records with that value over base_cpm
GroupedMedians(m) ==
    /\ DOMAIN m.table = {Retained[i][m.column] : i \in 1..Len(Retained)}
    /\ \A key \in DOMAIN m.table :
          m.table[key] = FDiv(MedianWhere(m.column, key), air_model.base_cpm)

\* C14: base_cpm is the median yield of the retained records and the
\* multiplier of a key is (median yield of the retained records with that
\* key) / base_cpm; with exactly one retained record base_cpm is that
\* record's yield and every multiplier present is 1.0.
C14_MedianMultipliers ==
    Built =>
        /\ air_model.base_cpm = Median(Yields(Retained))
        /\ \A n \in 1..3 : GroupedMedians(MultiplierTables[n])
        /\ Len(Retained) = 1 =>
              /\ air_model.base_cpm = Retained[1].ITIN_YIELD
              /\ \A n \in 1..3 : \A key \in DOMAIN MultiplierTables[n].table :
                    MultiplierTables[n].table[key] = One

\* C15: only tickets with all validity flags and a positive numeric yield and
\* mileage take part in the fit; a zero, negative or non-numeric yield never
\* does.
C15_OnlyValidRecordsFit ==
    Built => \A i \in 1..Len(Retained) : Valid(Retained[i])

\* the carriers of the retained records, and their passenger totals
Carriers == {Retained[i].REPORTING_CARRIER : i \in 1..Len(Retained)}
Passengers(carrier) ==
    SumSeq([i \in 1..Len(Retained) |->
              IF Retained[i].REPORTING_CARRIER = carrier THEN Retained[i].PASSENGERS ELSE 0])

\* C16: the public carrier table holds exactly the (at most 8) carriers with
\* the largest passenger totals among the retained records, each with
\* median-yield(carrier)/base_cpm; the records of the other carriers still
\* count in base_cpm and in the distance-group and trip-type multipliers.
C16_TopEightCarriers ==
    Built =>
        \A public \in {DOMAIN air_model.carrier_mult} :
           /\ public \subseteq Carriers
           /\ Cardinality(public) = Min(8, Cardinality(Carriers))
           /\ \A c \in public : \A other \in Carriers \ public :
                 Passengers(c) >= Passengers(other)
           /\ \A c \in public :
                 air_model.carrier_mult[c] =
                    FDiv(MedianWhere("REPORTING_CARRIER", c), air_model.base_cpm)
           /\ air_model.base_cpm = Median(Yields(Retained))
           /\ \A n \in 2..3 : GroupedMedians(MultiplierTables[n])

\* ten carriers: two are left out of the public table, and the distance group
\* only a left-out carrier flew has its multiplier
C16_Witness ==
    /\ Built
    /\ Cardinality(Carriers) = 10
    /\ Cardinality(DOMAIN air_model.carrier_mult) = 8
    /\ "G4" \notin DOMAIN air_model.carrier_mult
    /\ 3 \in DOMAIN air_model.dist_mult
    /\ \A i \in 1..Len(Retained) :
          Retained[i].DISTANCE_GROUP = 3 => Retained[i].REPORTING_CARRIER = "G4"
    /\ IsFinite(air_model.base_cpm) /\ air_model.base_cpm.num > 0

---------------------------------------------------------------------------
(* backend/transportation/distanceHelper.py and getFlightDistance.py *)

\* s.split(c)[0]
SplitFirst(s, c) == IF Contains(s, c) THEN SplitOnce(s, c)[1] ELSE s

\* the columns of a row of airports.csv or uscities.csv that the code reads:
\* city name, state name, latitude and longitude, all as text
Place(city, state, lat, lng) == [city |-> city, state |-> state, lat |-> lat, lng |-> lng]

\* the first row of the table with this city name, or 0
FirstRowOf(table, city) ==
    IF \E i \in 1..Len(table) : table[i].city = city
    THEN CHOOSE i \in 1..Len(table) :
            /\ table[i].city = city
            /\ \A j \in 1..(i - 1) : table[j].city # city
    ELSE 0

\* fetch_coords(city): the (lat, long) texts of the city's row, or None; the
\* argument is a str value or None
fetch_coords(city, cities) ==
    IF IsStr(city) /\ FirstRowOf(cities, city.s) # 0
    THEN LET row == cities[FirstRowOf(cities, city.s)] IN [lat |-> row.lat, lng |-> row.lng]
    ELSE None

\* fetch_state(city): the state name of the city's row, or None
fetch_state(city, cities) ==
    IF IsStr(city) /\ FirstRowOf(cities, city.s) # 0
    THEN Str(cities[FirstRowOf(cities, city.s)].state)
    ELSE None

\* float(text) of a coordinate
Degrees(text) == PyFloat(Str(text)).n

\* the square of calc_pyth_distance; the coordinates are whole degrees, so
\* sqrt(x) < r holds exactly when x < r * r
PythSquared(coords1, coords2) ==
    (Degrees(coords1.lat) - Degrees(coords2.lat)) * (Degrees(coords1.lat) - Degrees(coords2.lat))
    + (Degrees(coords1.lng) - Degrees(coords2.lng)) * (Degrees(coords1.lng) - Degrees(coords2.lng))

\* the radius of the same-state scan and of the scan of all airports
SameStateRadius == 50
AnyStateRadius == 150

\* the first row, in table order, that the scan accepts; 0 when none does
FirstWithin(table, cityCoords, radius, sameStateAs) ==
    LET accepts(i) ==
            /\ sameStateAs # None => Str(table[i].state) = sameStateAs
            /\ PythSquared(cityCoords, [lat |-> table[i].lat, lng |-> table[i].lng])
                  < radius * radius
    IN IF \E i \in 1..Len(table) : accepts(i)
       THEN CHOOSE i \in 1..Len(table) : accepts(i) /\ \A j \in 1..(i - 1) : ~accepts(j)
       ELSE 0

\* no exact-match step: the scans alone pick the airport city
fetch_airport_city_ScanOnly(city, airportRows, cities) ==
    LET cityCoords == fetch_coords(Str(city), cities)
        cityState == fetch_state(Str(city), cities)
    IN IF cityCoords = None
       THEN (IF airportRows = <<>> THEN [ok |-> TRUE, value |-> None]
             ELSE [ok |-> FALSE, value |-> None, error |-> "TypeError"])
       ELSE IF FirstWithin(airportRows, cityCoords, SameStateRadius, cityState) # 0
       THEN [ok |-> TRUE,
             value |-> Str(airportRows[FirstWithin(airportRows, cityCoords,
                                                   SameStateRadius, cityState)].city)]
       ELSE IF FirstWithin(airportRows, cityCoords, AnyStateRadius, None) # 0
       THEN [ok |-> TRUE,
             value |-> Str(airportRows[FirstWithin(airportRows, cityCoords,
                                                   AnyStateRadius, None)].city)]
       ELSE [ok |-> TRUE, value |-> None]

\* fetch_airport_city(city): all three scans end in `return city`; a city
\* without a row in the city table has cityCoords = None, no row passes the
\* state test, and calc_pyth_distance raises TypeError at the first row of the
\* last scan; falling off the end returns None
fetch_airport_city(city, airportRows, cities) ==
    LET cityCoords == fetch_coords(Str(city), cities)
        cityState == fetch_state(Str(city), cities)
    IN IF FirstRowOf(airportRows, city) # 0 THEN [ok |-> TRUE, value |-> Str(city)]
       ELSE IF cityCoords = None
       THEN (IF airportRows = <<>> THEN [ok |-> TRUE, value |-> None]
             ELSE [ok |-> FALSE, value |-> None, error |-> "TypeError"])
       ELSE IF FirstWithin(airportRows, cityCoords, SameStateRadius, cityState) # 0
       THEN [ok |-> TRUE, value |-> Str(city)]
       ELSE IF FirstWithin(airportRows, cityCoords, AnyStateRadius, None) # 0
       THEN [ok |-> TRUE, value |-> Str(city)]
       ELSE [ok |-> TRUE, value |-> None]

\* geopy's Point(coords): the two numbers; Point(None) is latitude 0,
\* longitude 0
Point(coords) ==
    IF coords = None THEN <<0, 0>> ELSE <<Degrees(coords.lat), Degrees(coords.lng)>>

\* geopy's great_circle(a, b).miles, to the mile, for the places of the model
GreatCircleTable ==
    {[a |-> <<43, -89>>, b |-> <<43, -88>>, miles |-> 51],
     [a |-> <<43, -89>>, b |-> <<44, -88>>, miles |-> 85],
     [a |-> <<43, -89>>, b |-> <<48, -122>>, miles |-> 1622],
     [a |-> <<43, -89>>, b |-> <<55, -132>>, miles |-> 2077],
     [a |-> <<43, -89>>, b |-> <<53, 173>>, miles |-> 4221],
     [a |-> <<43, -89>>, b |-> <<13, 145>>, miles |-> 7282],
     [a |-> <<43, -89>>, b |-> <<0, 0>>, miles |-> 6168],
     [a |-> <<43, -88>>, b |-> <<44, -88>>, miles |-> 69],
     [a |-> <<43, -88>>, b |-> <<48, -122>>, miles |-> 1668],
     [a |-> <<43, -88>>, b |-> <<55, -132>>, miles |-> 2117],
     [a |-> <<43, -88>>, b |-> <<53, 173>>, miles |-> 4255],
     [a |-> <<43, -88>>, b |-> <<13, 145>>, miles |-> 7323],
     [a |-> <<43, -88>>, b |-> <<0, 0>>, miles |-> 6117],
     [a |-> <<44, -88>>, b |-> <<48, -122>>, miles |-> 1641],
     [a |-> <<44, -88>>, b |-> <<55, -132>>, miles |-> 2074],
     [a |-> <<44, -88>>, b |-> <<53, 173>>, miles |-> 4205],
     [a |-> <<44, -88>>, b |-> <<13, 145>>, miles |-> 7282],
     [a |-> <<44, -88>>, b |-> <<0, 0>>, miles |-> 6119],
     [a |-> <<48, -122>>, b |-> <<55, -132>>, miles |-> 646],
     [a |-> <<48, -122>>, b |-> <<53, 173>>, miles |-> 2778],
     [a |-> <<48, -122>>, b |-> <<13, 145>>, miles |-> 5690],
     [a |-> <<48, -122>>, b |-> <<0, 0>>, miles |-> 7653],
     [a |-> <<55, -132>>, b |-> <<53, 173>>, miles |-> 2180],
     [a |-> <<55, -132>>, b |-> <<13, 145>>, miles |-> 5208],
     [a |-> <<55, -132>>, b |-> <<0, 0>>, miles |-> 7778],
     [a |-> <<53, 173>>, b |-> <<13, 145>>, miles |-> 3163],
     [a |-> <<53, 173>>, b |-> <<0, 0>>, miles |-> 8753],
     [a |-> <<13, 145>>, b |-> <<0, 0>>, miles |-> 9877]}

GreatCircleMiles(a, b) ==
    IF a = b THEN 0
    ELSE (CHOOSE e \in GreatCircleTable : (e.a = a /\ e.b = b) \/ (e.a = b /\ e.b = a)).miles

\* calc_flight_distance(city1, city2): [ok, miles, between, error]; `between`
\* is the pair of points handed to great_circle
calc_flight_distance(city1, city2, airportRows, cities) ==
    LET acity1 == fetch_airport_city(city1, airportRows, cities)
        acity2 == fetch_airport_city(city2, airportRows, cities)
        a == Point(fetch_coords(acity1.value, cities))
        b == Point(fetch_coords(acity2.value, cities))
    IN IF ~acity1.ok THEN [ok |-> FALSE, miles |-> 0, between |-> <<>>, error |-> acity1.error]
       ELSE IF ~acity2.ok
       THEN [ok |-> FALSE, miles |-> 0, between |-> <<>>, error |-> acity2.error]
       ELSE [ok |-> TRUE, miles |-> GreatCircleMiles(a, b), between |-> <<a, b>>, error |-> ""]

\* lines 452-463 of estimate_plane_cost: the city names cut from the full
\* names, and the call of calc_flight_distance
PlaneFlight(req, airportRows, cities) ==
    LET origin_full == slug_to_city_state(req.from_city_slug)
        dest_full == slug_to_city_state(req.to_city_slug)
        origin_city == Strip(SplitFirst(origin_full, ","))
        dest_city == Strip(SplitFirst(dest_full, ","))
    IN calc_flight_distance(origin_city, dest_city, airportRows, cities)

---------------------------------------------------------------------------
(* The distance resolver: inputs, operations and specification *)

\* the airport table has at most MaxAirports rows
MaxAirports == 2

SeattleRow == Place(<<"S", "e", "a", "t", "t", "l", "e">>,
    <<"W", "a", "s", "h", "i", "n", "g", "t", "o", "n">>, <<"4", "8">>, <<"-", "1", "2", "2">>)
MadisonRow == Place(<<"M", "a", "d", "i", "s", "o", "n">>,
    <<"W", "i", "s", "c", "o", "n", "s", "i", "n">>, <<"4", "3">>, <<"-", "8", "9">>)
MilwaukeeRow == Place(<<"M", "i", "l", "w", "a", "u", "k", "e", "e">>,
    <<"W", "i", "s", "c", "o", "n", "s", "i", "n">>, <<"4", "3">>, <<"-", "8", "8">>)
NeenahRow == Place(<<"N", "e", "e", "n", "a", "h">>,
    <<"W", "i", "s", "c", "o", "n", "s", "i", "n">>, <<"4", "4">>, <<"-", "8", "8">>)
KetchikanRow == Place(<<"K", "e", "t", "c", "h", "i", "k", "a", "n">>,
    <<"A", "l", "a", "s", "k", "a">>, <<"5", "5">>, <<"-", "1", "3", "2">>)
AttuRow == Place(<<"A", "t", "t", "u">>,
    <<"A", "l", "a", "s", "k", "a">>, <<"5", "3">>, <<"1", "7", "3">>)
HagatnaRow == Place(<<"H", "a", "g", "a", "t", "n", "a">>,
    <<"G", "u", "a", "m">>, <<"1", "3">>, <<"1", "4", "5">>)

\* the city table: every place of the model
UsCities == <<SeattleRow, MadisonRow, MilwaukeeRow, NeenahRow, KetchikanRow, AttuRow, HagatnaRow>>

\* the places that have an airport in some table
AirportPlaces == {SeattleRow, MadisonRow, MilwaukeeRow, KetchikanRow, HagatnaRow}

\* airport tables: the rows in any order, no city twice
AirportTables ==
    {t \in UNION {[1..n -> AirportPlaces] : n \in 1..MaxAirports} :
        \A i, j \in 1..Len(t) : i # j => t[i] # t[j]}

\* the city names asked about: the places, and a name in neither table
CityNames == {UsCities[i].city : i \in 1..Len(UsCities)} \cup {<<"x">>}

\* the slugs of a request: the three known to CITY_SLUG_MAP, and slugs it
\* hands back unchanged
PlaneSlugs ==
    {<<"m", "a", "d", "i", "s", "o", "n", "w", "i">>,
     <<"s", "e", "a", "t", "t", "l", "e", "w", "a">>,
     <<"n", "e", "e", "n", "a", "h", "w", "i">>,
     <<"A", "t", "t", "u">>, <<"x">>}

FetchAirportCity ==
    /\ Idle
    /\ \E city \in CityNames :
          /\ args' = [city |-> city]
          /\ ret' = fetch_airport_city(city, airports.rows, uscities.rows)
    /\ op' = "fetch_airport_city"
    /\ UNCHANGED <<listings, calls, transportState, scriptState>>

CalcFlightDistance ==
    /\ Idle
    /\ \E city1 \in CityNames, city2 \in CityNames :
          /\ args' = [city1 |-> city1, city2 |-> city2]
          /\ ret' = calc_flight_distance(city1, city2, airports.rows, uscities.rows)
    /\ op' = "calc_flight_distance"
    /\ UNCHANGED <<listings, calls, transportState, scriptState>>

\* build_move_plan for a request that asks for the plane estimate only
BuildMovePlanByPlane ==
    /\ Idle
    /\ \E from_city \in PlaneSlugs, to_city \in PlaneSlugs :
         LET req == MoveRequest(from_city, to_city, June, August, <<"0", "0">>,
                                <<"0", "0", "0", "0", "0", "1">>, 2)
         IN \E flight \in {PlaneFlight(req, airports.rows, uscities.rows)} :
              \E out \in {build_move_plan(req, None, listings, flight, Date(2026, 11, 1))} :
                 /\ args' = [req |-> req, flight |-> flight]
                 /\ ret' = IF out.ok THEN [status |-> 200, body |-> out.value, error |-> ""]
                           ELSE [status |-> 500, body |-> None, error |-> out.error]
                 /\ calls' = out.calls
    /\ op' = "build_move_plan"
    /\ UNCHANGED <<listings, transportState, scriptState>>

InitFlight ==
    /\ InitCalls
    /\ listings \in PlanFiles \ {FileMissing}
    /\ tickets = NotLoaded
    /\ air_model = NotLoaded
    /\ airports \in {CsvFile(t) : t \in AirportTables}
    /\ uscities = CsvFile(UsCities)
    /\ rentals = NotLoaded
    /\ ground_model = NotLoaded
    /\ aliases = {}
    /\ NoScripts
NextFlight == FetchAirportCity \/ CalcFlightDistance \/ BuildMovePlanByPlane
SpecFlight == InitFlight /\ [][NextFlight]_vars

---------------------------------------------------------------------------
(* Properties of the distance resolver (SpecFlight) *)

AirportRows == airports.rows
CityRows == uscities.rows

InAirportTable(city) == FirstRowOf(AirportRows, city) # 0
InCityTable(city) == FirstRowOf(CityRows, city) # 0

\* the coordinates of a city of the city table, in degrees
CoordsOf(city) ==
    LET row == CityRows[FirstRowOf(CityRows, city)]
    IN <<Degrees(row.lat), Degrees(row.lng)>>

\* the Euclidean distance between a city and an airport row is below r
Near(city, i, r) ==
    LET c == CoordsOf(city)
        a == <<Degrees(AirportRows[i].lat), Degrees(AirportRows[i].lng)>>
    IN (c[1] - a[1]) * (c[1] - a[1]) + (c[2] - a[2]) * (c[2] - a[2]) < r * r

\* the first airport row satisfying P, or 0
FirstAirport(P(_)) ==
    IF \E i \in 1..Len(AirportRows) : P(i)
    THEN CHOOSE i \in 1..Len(AirportRows) : P(i) /\ \A j \in 1..(i - 1) : ~P(j)
    ELSE 0

\* the airport city the tiers name for a city: the city itself, else the
\* first airport in its state nearer than 50, else the first airport nearer
\* than 150, else none
TieredAirport(city) ==
    LET stateOf == CityRows[FirstRowOf(CityRows, city)].state
        sameState(i) == AirportRows[i].state = stateOf /\ Near(city, i, 50)
        anyState(i) == Near(city, i, 150)
    IN IF InAirportTable(city) THEN Str(city)
       ELSE IF ~InCityTable(city) THEN None
       ELSE IF FirstAirport(sameState) # 0 THEN Str(AirportRows[FirstAirport(sameState)].city)
       ELSE IF FirstAirport(anyState) # 0 THEN Str(AirportRows[FirstAirport(anyState)].city)
       ELSE None

\* C17: fetch_airport_city(C) returns C when C is in the airport table, else
\* the first airport-table city in C's state nearer than 50, else the first
\* airport-table city nearer than 150, else no result; every result is a city
\* of the airport table.
C17_TieredAirportLookup ==
    op = "fetch_airport_city" =>
        /\ (ret.ok /\ ret.value # None) =>
              /\ ret.value = TieredAirport(args.city)
              /\ InAirportTable(ret.value.s)
        /\ TieredAirport(args.city) # None => (ret.ok /\ ret.value # None)

PlanePlanned == op = "build_move_plan"

Plane == DictGet(DictGet(ret.body, "transportation"), "plane")

\* the city name estimate_plane_cost looks up for a slug
CityOfSlug(slug) == Strip(SplitFirst(slug_to_city_state(slug), ","))

\* the city is in neither table: it has no coordinates and matches no airport
Unresolvable(city) == ~InCityTable(city) /\ ~InAirportTable(city)

---------------------------------------------------------------------------
(* backend/transportation/ground_model.py *)

\* AAA cents per mile by vehicle subtype
fuel_cpm ==
    [k \in {"Small Sedan", "Medium Sedan", "Subcompact SUV", "Compact SUV (FWD)",
            "Medium SUV (4WD)", "Midsize Pickup", "1/2 Ton Pickup"} |->
        CASE k = "Small Sedan" -> Float(1112, 100)
          [] k = "Medium Sedan" -> Float(1254, 100)
          [] k = "Subcompact SUV" -> Float(1337, 100)
          [] k = "Compact SUV (FWD)" -> Float(1270, 100)
          [] k = "Medium SUV (4WD)" -> Float(1646, 100)
          [] k = "Midsize Pickup" -> Float(1881, 100)
          [] k = "1/2 Ton Pickup" -> Float(2216, 100)]

maint_cpm ==
    [k \in {"Small Sedan", "Medium Sedan", "Subcompact SUV", "Compact SUV (FWD)",
            "Medium SUV (4WD)", "Midsize Pickup", "1/2 Ton Pickup"} |->
        CASE k = "Small Sedan" -> Float(955, 100)
          [] k = "Medium Sedan" -> Float(1089, 100)
          [] k = "Subcompact SUV" -> Float(1006, 100)
          [] k = "Compact SUV (FWD)" -> Float(1087, 100)
          [] k = "Medium SUV (4WD)" -> Float(1110, 100)
          [] k = "Midsize Pickup" -> Float(1088, 100)
          [] k = "1/2 Ton Pickup" -> Float(988, 100)]

RECURSIVE FSum(_)
FSum(values) == IF values = <<>> THEN Float(0, 1) ELSE FAdd(Head(values), FSum(Tail(values)))

\* the cents of the subtypes added up, neither averaged nor turned into dollars
avg_dollars_per_mile_Total(keys, cpm_dict) ==
    FSum([i \in 1..Len(keys) |-> cpm_dict[keys[i]]])

\* sum(cpm_dict[k] for k in keys) / len(keys) / 100.0
avg_dollars_per_mile(keys, cpm_dict) ==
    FDiv(FDiv(FSum([i \in 1..Len(keys) |-> cpm_dict[keys[i]]]), Float(Len(keys), 1)),
         Float(100, 1))

car_keys == <<"Small Sedan", "Medium Sedan">>
minivan_suv_keys == <<"Subcompact SUV", "Compact SUV (FWD)", "Medium SUV (4WD)">>
truck_keys == <<"Midsize Pickup", "1/2 Ton Pickup">>

\* the per-mile table of the five classes for one cost table
PerMile(cpm_dict) ==
    [class \in {"car", "minivan", "suv", "truck", "van"} |->
        CASE class = "car" -> avg_dollars_per_mile(car_keys, cpm_dict)
          [] class = "minivan" -> avg_dollars_per_mile(minivan_suv_keys, cpm_dict)
          [] class = "suv" -> avg_dollars_per_mile(minivan_suv_keys, cpm_dict)
          [] class = "truck" -> avg_dollars_per_mile(truck_keys, cpm_dict)
          [] class = "van" -> avg_dollars_per_mile(truck_keys, cpm_dict)]

\* bus dollars per mile by distance // 500
BUS_CPM_BY_BUCKET ==
    [b \in 0..2 |-> CASE b = 0 -> Float(2794, 10000)
                      [] b = 1 -> Float(2413, 10000)
                      [] b = 2 -> Float(1905, 10000)]

\* df.dropna(subset=["vehicle.type", "rate.daily"])
RentalRows(rows) ==
    SelectSeq(rows, LAMBDA r : r.type # EmptyCell /\ r.rate # EmptyCell)

\* df.groupby("vehicle.type")["rate.daily"].median().to_dict()
DailyRental(df) ==
    [type \in {df[i].type : i \in 1..Len(df)} |->
        Median([i \in 1..Len(SelectSeq(df, LAMBDA r : r.type = type)) |->
                   SelectSeq(df, LAMBDA r : r.type = type)[i].rate])]

\* GroundModel(csv_path): pd.read_csv raises for a missing file, pd.to_numeric
\* (called without errors="coerce") raises ValueError for a rate that is not
\* a number
GroundModel(csv) ==
    IF ~csv.exists THEN [ok |-> FALSE, error |-> "FileNotFoundError"]
    ELSE IF \E i \in 1..Len(csv.rows) : IsStr(csv.rows[i].rate)
    THEN [ok |-> FALSE, error |-> "ValueError"]
    ELSE [ok |-> TRUE,
          daily_rate_by_type |-> <<>>,
          rental_multipliers |->
              [DailyRental |-> DailyRental(RentalRows(csv.rows)),
               FuelPerMile |-> PerMile(fuel_cpm),
               MaintenancePerMile |-> PerMile(maint_cpm),
               BusCPM |-> BUS_CPM_BY_BUCKET]]

\* get_all_multipliers: dict(self.rental_multipliers), a copy of the outer
\* dict only; SharedTables are the keys whose value is the instance's own table
get_all_multipliers(self) == self.rental_multipliers

SharedTables(self) == DOMAIN self.rental_multipliers

---------------------------------------------------------------------------
(* The ground model: inputs, operations and specification *)

\* the rental file has at most MaxRentals rows
MaxRentals == 3

Rental(type, rate) == [type |-> type, rate |-> rate]

RentalKinds ==
    {Rental(Str(<<"c", "a", "r">>), Float(30, 1)),
     Rental(Str(<<"c", "a", "r">>), Float(55, 1)),
     Rental(Str(<<"s", "u", "v">>), Float(80, 1)),
     Rental(EmptyCell, Float(40, 1)),
     Rental(Str(<<"v", "a", "n">>), EmptyCell),
     Rental(Str(<<"v", "a", "n">>), Str(<<"x">>))}

RentalFiles ==
    {FileMissing} \cup
    {CsvFile(rows) : rows \in UNION {[1..n -> RentalKinds] : n \in 0..MaxRentals}}

\* `ground_model = GroundModel()` at import
ImportGroundModel ==
    /\ Idle
    /\ ground_model = NotLoaded
    /\ ground_model' = GroundModel(rentals)
    /\ ret' = [ok |-> GroundModel(rentals).ok]
    /\ op' = "GroundModel"
    /\ args' = NoArgs
    /\ calls' = <<"read_csv">>
    /\ UNCHANGED <<listings, tickets, air_model, airports, uscities, rentals, aliases, scriptState>>

\* ground_model.get_all_multipliers()
GetAllGroundMultipliers ==
    /\ ground_model # NotLoaded
    /\ ground_model.ok
    /\ ret' = get_all_multipliers(ground_model)
    /\ aliases' = SharedTables(ground_model)
    /\ op' = "get_all_multipliers"
    /\ UNCHANGED <<listings, args, calls, tickets, air_model, airports, uscities, rentals,
                   ground_model, scriptState>>

InitGround ==
    /\ InitCalls
    /\ listings = FileMissing
    /\ tickets = NotLoaded
    /\ air_model = NotLoaded
    /\ airports = NotLoaded
    /\ uscities = NotLoaded
    /\ rentals \in RentalFiles
    /\ ground_model = NotLoaded
    /\ aliases = {}
    /\ NoScripts
NextGround == ImportGroundModel \/ GetAllGroundMultipliers
SpecGround == InitGround /\ [][NextGround]_vars

---------------------------------------------------------------------------
(* Both models with callers that keep and change the snapshots they get *)

\* a caller writes into the snapshots it holds at most MaxWrites times
MaxWrites == 1

\* the keys of a snapshot that hold a dict
TableKeys(snapshot) == DOMAIN snapshot \ {"BaseCPM"}

\* snapshot[key][inner] = 0.0 by the caller that holds the snapshot: the
\* write lands in the dict object, which is the instance's own table when the
\* snapshot aliases it
WriteThrough(self, key, inner) ==
    IF key \in aliases
    THEN [self EXCEPT !.rental_multipliers[key][inner] = Float(0, 1)]
    ELSE self

\* a caller changes the snapshot it was handed: it rebinds a top-level key
\* (snapshot[key] = {}) or writes into one of the tables
ModifySnapshot ==
    /\ op \in {"get_all_multipliers", "AirModel.get_all_multipliers"}
    /\ Len(calls) < MaxWrites
    /\ calls' = Append(calls, "setitem")
    /\ \E key \in TableKeys(ret) :
          \/ /\ ret' = [ret EXCEPT ![key] = <<>>]
             /\ aliases' = aliases \ {key}
             /\ UNCHANGED ground_model
          \/ \E inner \in DOMAIN ret[key] :
                /\ ret[key][inner] # Float(0, 1)
                /\ ret' = [ret EXCEPT ![key][inner] = Float(0, 1)]
                /\ ground_model' = WriteThrough(ground_model, key, inner)
                /\ UNCHANGED aliases
    /\ UNCHANGED <<listings, op, args, tickets, air_model, airports, uscities, rentals, scriptState>>

\* both instances as constructed at import, from small datasets
SnapshotTickets == {CsvFile(<<t>>) : t \in {Ticket("AA", 1, Float(1, 4), 1, 0)}} \cup {CsvFile(NineCarriers)}
SnapshotRentals == {CsvFile(<<r>>) : r \in {Rental(Str(<<"c", "a", "r">>), Float(30, 1)),
                                             Rental(EmptyCell, Float(40, 1))}}

InitSnapshots ==
    /\ InitCalls
    /\ listings = FileMissing
    /\ tickets \in SnapshotTickets
    /\ air_model \in AirModel(tickets)
    /\ airports = NotLoaded
    /\ uscities = NotLoaded
    /\ rentals \in SnapshotRentals
    /\ ground_model = GroundModel(rentals)
    /\ aliases = {}
    /\ NoScripts
NextSnapshots ==
    GetAllAirMultipliers \/ GetAllGroundMultipliers \/ PriceForDistance \/ ModifySnapshot
SpecSnapshots == InitSnapshots /\ [][NextSnapshots]_vars

---------------------------------------------------------------------------
(* Properties of the ground model (SpecGround) *)

GroundBuilt == "ok" \in DOMAIN ground_model /\ ground_model.ok

\* the AAA subtypes assigned to a class
SubtypesOf(class) ==
    CASE class = "car" -> {"Small Sedan", "Medium Sedan"}
      [] class \in {"minivan", "suv"} -> {"Subcompact SUV", "Compact SUV (FWD)", "Medium SUV (4WD)"}
      [] class \in {"truck", "van"} -> {"Midsize Pickup", "1/2 Ton Pickup"}

\* the sum of the cents-per-mile constants of a set of subtypes, in hundredths
\* of a cent
RECURSIVE CentsTotal(_, _)
CentsTotal(subtypes, cpm) ==
    IF subtypes = {} THEN 0
    ELSE LET k == CHOOSE k \in subtypes : TRUE
         IN (cpm[k].num * 100) \div cpm[k].den + CentsTotal(subtypes \ {k}, cpm)

\* the simple mean of the constants of the class's subtypes, in dollars
MeanDollars(class, cpm) ==
    Float(CentsTotal(SubtypesOf(class), cpm), 100 * Cardinality(SubtypesOf(class)) * 100)

\* C20: the fuel and the maintenance cost per mile of car, minivan, suv, truck
\* and van are the unweighted mean of the cents-per-mile constants of the
\* class's AAA subtypes, divided by 100; minivan equals suv and truck equals
\* van; the values are the same whatever the rental dataset holds.
C20_PerMileMeans ==
    GroundBuilt =>
        \A m \in {ground_model.rental_multipliers} :
           /\ DOMAIN m.FuelPerMile = {"car", "minivan", "suv", "truck", "van"}
           /\ DOMAIN m.MaintenancePerMile = {"car", "minivan", "suv", "truck", "van"}
           /\ \A class \in {"car", "minivan", "suv", "truck", "van"} :
                 /\ m.FuelPerMile[class] = MeanDollars(class, fuel_cpm)
                 /\ m.MaintenancePerMile[class] = MeanDollars(class, maint_cpm)
           /\ m.FuelPerMile["minivan"] = m.FuelPerMile["suv"]
           /\ m.FuelPerMile["truck"] = m.FuelPerMile["van"]
           /\ m.MaintenancePerMile["minivan"] = m.MaintenancePerMile["suv"]
           /\ m.MaintenancePerMile["truck"] = m.MaintenancePerMile["van"]
           /\ m.FuelPerMile["car"] = Float(1183, 10000)
           /\ m.FuelPerMile["suv"] = Float(4253, 30000)
           /\ m.FuelPerMile["truck"] = Float(40970, 200000)
           /\ m.MaintenancePerMile["car"] = Float(1022, 10000)
           /\ m.MaintenancePerMile["suv"] = Float(3203, 30000)
           /\ m.MaintenancePerMile["truck"] = Float(1038, 10000)

\* a model built from a rental file with two car rates and an suv rate: the
\* daily rates follow the file, the per-mile values are the fixed means
C20_Witness ==
    /\ op = "get_all_multipliers"
    /\ DOMAIN ret.DailyRental = {Str(<<"c", "a", "r">>), Str(<<"s", "u", "v">>)}
    /\ ret.DailyRental[Str(<<"c", "a", "r">>)] = Float(85, 2)
    /\ ret.FuelPerMile["car"] = Float(1183, 10000)
    /\ ret.MaintenancePerMile["van"] = Float(1038, 10000)

\* C22: a rental file with no usable row (no row, or no row holding both a
\* vehicle class and a daily rate) or with a daily rate that is not a number
\* makes the constructor fail; a built ground model never has an empty
\* daily-rate table.
C22_UnusableRentalsFail ==
    /\ GroundBuilt => DOMAIN ground_model.rental_multipliers.DailyRental # {}
    /\ (op = "GroundModel" /\ rentals.exists /\ RentalRows(rentals.rows) = <<>>) => ~ret.ok

\* C23: once built, a model instance never changes, whatever the callers do
\* to the snapshots that get_all_multipliers and price_for_distance handed
\* them, so a later get_all_multipliers returns what the first one returned;
\* for the fare model and for the ground model.
C23_ModelsReadOnly ==
    [][/\ ground_model # NotLoaded => ground_model' = ground_model
       /\ air_model # NotLoaded => air_model' = air_model]_vars

---------------------------------------------------------------------------
(* backend/uhaul_scraper/uhaul_scraper.py *)

\* Texts are sequences of chunks; the separators the code splits on (" to ",
\* "for ", " on ") are chunks of their own.

\* what a step of the scraper does: it returns, or it raises; steps is the
\* driver calls it made, in order
Done(value, steps) == [ok |-> TRUE, value |-> value, error |-> "", steps |-> steps]
Raised(error, steps) == [ok |-> FALSE, value |-> None, error |-> error, steps |-> steps]

\* text.split(sep): the parts between the occurrences of sep
RECURSIVE Split(_, _)
Split(text, sep) ==
    IF ~Contains(text, sep) THEN <<text>>
    ELSE <<SubSeq(text, 1, FirstIndex(text, sep) - 1)>>
         \o Split(SubSeq(text, FirstIndex(text, sep) + 1, Len(text)), sep)

\* check_captcha: find_elements may fail, a captcha text raises RuntimeError;
\* both happen inside `try`, and `except Exception: pass` ends the call normally
check_captcha(page) ==
    LET body == IF page.captcha = "lookup fails" THEN Raised("WebDriverException", <<>>)
                ELSE IF page.captcha = "shown" THEN Raised("RuntimeError: captcha", <<>>)
                ELSE Done(None, <<>>)
    IN IF ~body.ok THEN Done(None, <<"check_captcha">>)
       ELSE Done(None, <<"check_captcha">>)

\* search_trucks: load the page, check for a captcha, find the four form
\* fields, fill them and click Get Rates
search_trucks(page) ==
    IF ~page.get_ok THEN Raised("WebDriverException", <<"get trucks">>)
    ELSE LET captcha == check_captcha(page)
             loaded == <<"get trucks">> \o captcha.steps
         IN IF ~captcha.ok THEN Raised(captcha.error, loaded)
            ELSE IF ~page.fields
            THEN Raised("RuntimeError: form fields", loaded \o <<"wait_for">>)
            ELSE IF ~page.fill_ok
            THEN Raised("ElementNotInteractableException",
                        loaded \o <<"wait_for", "fill trucks form">>)
            ELSE Done(None, loaded \o <<"wait_for", "fill trucks form", "click getRates">>)

\* the pickup and dropoff shown in the h1 header, or the inputs when the
\* header is missing or is not "<pickup> to <dropoff>"
HeaderLocations(page, pickup_input, dropoff_input) ==
    IF page.h1 = <<>> THEN <<pickup_input, dropoff_input>>
    ELSE LET parts == Split(page.h1, " to ")
             pickup_location == IF Len(parts) = 2 THEN parts[1] ELSE pickup_input
             dropoff_location == IF Len(parts) = 2 THEN parts[2] ELSE dropoff_input
         IN <<IF Contains(pickup_location, "for ")
              THEN Split(pickup_location, "for ")[2] ELSE pickup_location,
              IF Contains(dropoff_location, " on ")
              THEN Split(dropoff_location, " on ")[1] ELSE dropoff_location>>

\* one truck card: its h3 name and its rate, found at the first or at the
\* second XPath; a card that lacks one of them is skipped
TruckCards(cards, locations, date_str) ==
    LET usable == SelectSeq(cards, LAMBDA card : card.name # <<>> /\ card.rate # <<>>)
    IN [i \in 1..Len(usable) |->
           DictOf(<< <<"Pickup Location", Str(locations[1])>>,
                     <<"Dropoff Location", Str(locations[2])>>,
                     <<"Truck Type", Str(usable[i].name)>>,
                     <<"Rate", Str(usable[i].rate)>>,
                     <<"Date", Str(date_str)>> >>)]

\* parse_truck_results
parse_truck_results(page, pickup_input, dropoff_input, date_str) ==
    IF ~page.cards_ok THEN Raised("WebDriverException", <<"wait_for h1", "find cards">>)
    ELSE Done(List(TruckCards(page.cards,
                              HeaderLocations(page, pickup_input, dropoff_input), date_str)),
              <<"wait_for h1", "find cards">>)

\* search_movers: the "both" label and the search button are optional, the
\* loading and the unloading section are not
search_movers(page) ==
    IF ~page.get_ok THEN Raised("WebDriverException", <<"get movers">>)
    ELSE LET captcha == check_captcha(page)
             loaded == <<"get movers">> \o captcha.steps
         IN IF ~captcha.ok THEN Raised(captcha.error, loaded)
            ELSE IF ~page.loading_ok
            THEN Raised("RuntimeError: loading section", loaded \o <<"click both">>)
            ELSE IF ~page.unloading_ok
            THEN Raised("RuntimeError: unloading section",
                        loaded \o <<"click both", "fill loading">>)
            ELSE Done(None, loaded \o <<"click both", "fill loading", "fill unloading",
                                       "click search">>)

\* one mover card: its h3 (or else h2) name and the first text with a "$"
MoverCards(cards, a) ==
    LET usable == SelectSeq(cards, LAMBDA card : card.name # <<>> /\ card.rate # <<>>)
    IN [i \in 1..Len(usable) |->
           DictOf(<< <<"Loading Address", Str(a.loading_address)>>,
                     <<"Unloading Address", Str(a.unloading_address)>>,
                     <<"Loading Date", Str(a.loading_date)>>,
                     <<"Loading Time", Str(a.loading_time)>>,
                     <<"Unloading Date", Str(a.unloading_date)>>,
                     <<"Unloading Time", Str(a.unloading_time)>>,
                     <<"Company", Str(usable[i].name)>>,
                     <<"Price", Str(usable[i].rate)>> >>)]

\* parse_mover_results
parse_mover_results(page, a) ==
    IF ~page.cards_ok THEN Raised("WebDriverException", <<"find cards">>)
    ELSE Done(List(MoverCards(page.cards, a)), <<"find cards">>)

\* create_driver, then `try: body  finally: driver.quit()`; without a
\* driver there is nothing to quit
QuitInFinally_OnReturnOnly(driver_ok, body) ==
    IF ~driver_ok THEN Raised("WebDriverException", <<"create_driver">>)
    ELSE [body EXCEPT !.steps = <<"create_driver">> \o body.steps
                                \o (IF body.ok THEN <<"quit">> ELSE <<>>)]

QuitInFinally(driver_ok, body) ==
    IF ~driver_ok THEN Raised("WebDriverException", <<"create_driver">>)
    ELSE [body EXCEPT !.steps = <<"create_driver">> \o body.steps \o <<"quit">>]

\* get_truck_options(pickup, dropoff, pickup_date_str)
get_truck_options(web, pickup, dropoff, pickup_date_str) ==
    LET search == search_trucks(web.trucks)
        parsed == parse_truck_results(web.trucks, pickup, dropoff, pickup_date_str)
        body == IF ~search.ok THEN search
                ELSE IF ~parsed.ok THEN Raised(parsed.error, search.steps \o parsed.steps)
                ELSE Done(DictOf(<< <<"provider", Text("uhaul")>>,
                                    <<"mode", Text("truck_rental")>>,
                                    <<"pickup_location", Str(pickup)>>,
                                    <<"dropoff_location", Str(dropoff)>>,
                                    <<"pickup_date", Str(pickup_date_str)>>,
                                    <<"options", parsed.value>> >>),
                          search.steps \o parsed.steps)
    IN QuitInFinally(web.driver_ok, body)

\* get_moving_help_options(loading_address, ..., unloading_time)
get_moving_help_options(web, a) ==
    LET search == search_movers(web.movers)
        parsed == parse_mover_results(web.movers, a)
        body == IF ~search.ok THEN search
                ELSE IF ~parsed.ok THEN Raised(parsed.error, search.steps \o parsed.steps)
                ELSE Done(DictOf(<< <<"provider", Text("uhaul")>>,
                                    <<"mode", Text("moving_help")>>,
                                    <<"loading_address", Str(a.loading_address)>>,
                                    <<"unloading_address", Str(a.unloading_address)>>,
                                    <<"loading_date", Str(a.loading_date)>>,
                                    <<"loading_time", Str(a.loading_time)>>,
                                    <<"unloading_date", Str(a.unloading_date)>>,
                                    <<"unloading_time", Str(a.unloading_time)>>,
                                    <<"options", parsed.value>> >>),
                          search.steps \o parsed.steps)
    IN QuitInFinally(web.driver_ok, body)

\* get_truck_and_moving_help_options: one driver for both searches
get_truck_and_moving_help_options(web, a) ==
    LET truck_search == search_trucks(web.trucks)
        truck_results == parse_truck_results(web.trucks, a.loading_address,
                                             a.unloading_address, a.loading_date)
        mover_search == search_movers(web.movers)
        mover_results == parse_mover_results(web.movers, a)
        s1 == truck_search.steps
        s2 == s1 \o truck_results.steps
        s3 == s2 \o mover_search.steps
        s4 == s3 \o mover_results.steps
        body == IF ~truck_search.ok THEN truck_search
                ELSE IF ~truck_results.ok THEN Raised(truck_results.error, s2)
                ELSE IF ~mover_search.ok THEN Raised(mover_search.error, s3)
                ELSE IF ~mover_results.ok THEN Raised(mover_results.error, s4)
                ELSE Done(DictOf(<< <<"provider", Text("uhaul")>>,
                                    <<"mode", Text("truck_and_moving_help")>>,
                                    <<"origin", Str(a.loading_address)>>,
                                    <<"destination", Str(a.unloading_address)>>,
                                    <<"pickup_date", Str(a.loading_date)>>,
                                    <<"loading_time", Str(a.loading_time)>>,
                                    <<"unloading_date", Str(a.unloading_date)>>,
                                    <<"unloading_time", Str(a.unloading_time)>>,
                                    <<"truck_options", truck_results.value>>,
                                    <<"moving_help_options", mover_results.value>> >>),
                          s4)
    IN QuitInFinally(web.driver_ok, body)

---------------------------------------------------------------------------
(* The scraper: the vendor's pages, operations and specification *)

\* a result page shows at most MaxCards cards
MaxCards == 2

Card(name, rate) == [name |-> name, rate |-> rate]

\* a card with a name and a rate, one whose rate is only found by the
\* fallback lookup, and one without a rate
CardKinds ==
    {Card(<<"10' Truck">>, <<"$29.95">>), Card(<<"15' Truck">>, <<"$39.95 ">>),
     Card(<<"26' Truck">>, <<>>)}

CardLists == UNION {[1..n -> CardKinds] : n \in 0..MaxCards}

Captchas == {"none", "shown", "lookup fails"}

Headers ==
    {<<>>,
     <<"Madison, WI", " to ", "Seattle, WA">>,
     <<"Rates ", "for ", "Madison, WI", " to ", "Seattle, WA", " on ", "11/01/2026">>,
     <<"Moving", " to ", "Seattle, WA", " to ", "stay">>}

TruckPage(get_ok, captcha, fields, fill_ok, h1, cards_ok, cards) ==
    [get_ok |-> get_ok, captcha |-> captcha, fields |-> fields, fill_ok |-> fill_ok,
     h1 |-> h1, cards_ok |-> cards_ok, cards |-> cards]

\* the truck page as the driver may find it: unreachable, without the form,
\* with a form that cannot be filled, with results that cannot be read, and
\* with results; each with and without a captcha text
TruckPages ==
    {TruckPage(FALSE, "none", FALSE, FALSE, <<>>, FALSE, <<>>)}
    \cup {TruckPage(TRUE, c, FALSE, FALSE, <<>>, FALSE, <<>>) : c \in Captchas}
    \cup {TruckPage(TRUE, c, TRUE, FALSE, <<>>, FALSE, <<>>) : c \in Captchas}
    \cup {TruckPage(TRUE, c, TRUE, TRUE, <<>>, FALSE, <<>>) : c \in Captchas}
    \cup {TruckPage(TRUE, c, TRUE, TRUE, <<>>, TRUE, cards) : c \in Captchas, cards \in CardLists}
    \cup {TruckPage(TRUE, "none", TRUE, TRUE, h1, TRUE, <<card>>) : h1 \in Headers, card \in CardKinds}

MoverPage(get_ok, captcha, loading_ok, unloading_ok, cards_ok, cards) ==
    [get_ok |-> get_ok, captcha |-> captcha, loading_ok |-> loading_ok,
     unloading_ok |-> unloading_ok, cards_ok |-> cards_ok, cards |-> cards]

MoverPages ==
    {MoverPage(FALSE, "none", FALSE, FALSE, FALSE, <<>>)}
    \cup {MoverPage(TRUE, c, FALSE, FALSE, FALSE, <<>>) : c \in Captchas}
    \cup {MoverPage(TRUE, c, TRUE, FALSE, FALSE, <<>>) : c \in Captchas}
    \cup {MoverPage(TRUE, c, TRUE, TRUE, FALSE, <<>>) : c \in Captchas}
    \cup {MoverPage(TRUE, c, TRUE, TRUE, TRUE, cards) : c \in Captchas, cards \in CardLists}

NoPage == [get_ok |-> FALSE]

Web(driver_ok, trucks, movers) == [driver_ok |-> driver_ok, trucks |-> trucks, movers |-> movers]

MoveArgs ==
    [loading_address |-> <<"Madison, WI">>, unloading_address |-> <<"Seattle, WA">>,
     loading_date |-> <<"11/01/2026">>, loading_time |-> <<"Morning">>,
     unloading_date |-> <<"11/02/2026">>, unloading_time |-> <<"Evening">>]

Outcome(out) == [ok |-> out.ok, value |-> out.value, error |-> out.error]

GetTruckOptions ==
    /\ Idle
    /\ \E driver_ok \in BOOLEAN, page \in TruckPages :
         \E out \in {get_truck_options(Web(driver_ok, page, NoPage), MoveArgs.loading_address,
                                       MoveArgs.unloading_address, MoveArgs.loading_date)} :
            /\ args' = [web |-> Web(driver_ok, page, NoPage)]
            /\ ret' = Outcome(out)
            /\ calls' = out.steps
    /\ op' = "get_truck_options"
    /\ UNCHANGED <<listings, transportState, scriptState>>

GetMovingHelpOptions ==
    /\ Idle
    /\ \E driver_ok \in BOOLEAN, page \in MoverPages :
         \E out \in {get_moving_help_options(Web(driver_ok, NoPage, page), MoveArgs)} :
            /\ args' = [web |-> Web(driver_ok, NoPage, page)]
            /\ ret' = Outcome(out)
            /\ calls' = out.steps
    /\ op' = "get_moving_help_options"
    /\ UNCHANGED <<listings, transportState, scriptState>>

GetTruckAndMovingHelpOptions ==
    /\ Idle
    /\ \E driver_ok \in BOOLEAN, trucks \in TruckPages, movers \in MoverPages :
         \E out \in {get_truck_and_moving_help_options(Web(driver_ok, trucks, movers), MoveArgs)} :
            /\ args' = [web |-> Web(driver_ok, trucks, movers)]
            /\ ret' = Outcome(out)
            /\ calls' = out.steps
    /\ op' = "get_truck_and_moving_help_options"
    /\ UNCHANGED <<listings, transportState, scriptState>>

InitScraper == InitCommon /\ listings = FileMissing
NextScraper == GetTruckOptions \/ GetMovingHelpOptions \/ GetTruckAndMovingHelpOptions
SpecScraper == InitScraper /\ [][NextScraper]_vars

---------------------------------------------------------------------------
(* Properties of the scraper (SpecScraper) *)

ScraperCalled ==
    op \in {"get_truck_options", "get_moving_help_options", "get_truck_and_moving_help_options"}

Count(steps, step) == Cardinality({i \in 1..Len(steps) : steps[i] = step})

\* the page on which the call met a captcha text, if it loaded one
CaptchaMet(page, get) ==
    /\ Count(calls, get) = 1
    /\ page.get_ok
    /\ page.captcha = "shown"

\* the step that follows the step `step` in the call
After(step) == calls[1 + CHOOSE i \in 1..Len(calls) : calls[i] = step]

\* C24: on a page that shows a captcha, check_captcha raises: the search
\* stops there, before any form field is looked up or filled, and the get_*
\* function raises to its caller instead of returning options.
C24_CaptchaBailsOut ==
    ScraperCalled =>
        /\ CaptchaMet(args.web.trucks, "get trucks") =>
              /\ ~ret.ok
              /\ After("get trucks") = "check_captcha"
              /\ calls[Len(calls) - 1] = "check_captcha"
              /\ Count(calls, "fill trucks form") = 0
        /\ CaptchaMet(args.web.movers, "get movers") =>
              /\ ~ret.ok
              /\ calls[Len(calls) - 1] = "check_captcha"
              /\ Count(calls, "fill loading") = 0

\* C28: a driver that was created is quit exactly once, as the last thing
\* the call does, whether the call returns options, returns an empty list
\* or raises in the search or the parsing step; what was raised reaches the
\* caller.
C28_DriverQuitOnce ==
    (ScraperCalled /\ args.web.driver_ok) =>
        /\ Count(calls, "create_driver") = 1
        /\ Count(calls, "quit") = 1
        /\ calls[Len(calls)] = "quit"
        /\ (\/ (op # "get_moving_help_options" /\ ~search_trucks(args.web.trucks).ok)
            \/ (op # "get_moving_help_options" /\ ~args.web.trucks.cards_ok)
            \/ (op # "get_truck_options" /\ ~search_movers(args.web.movers).ok)
            \/ (op # "get_truck_options" /\ ~args.web.movers.cards_ok))
           => (~ret.ok /\ ret.error # "")

\* a combined call whose truck search worked and whose mover results could
\* not be read: the driver is quit and the exception reaches the caller
C28_Witness ==
    /\ op = "get_truck_and_moving_help_options"
    /\ args.web.driver_ok
    /\ Count(calls, "fill unloading") = 1
    /\ ~args.web.movers.cards_ok
    /\ ret.error = "WebDriverException"
    /\ calls[Len(calls)] = "quit"

---------------------------------------------------------------------------
(* Properties of the fare model's bands (SpecAir) *)

\* the label "low-high" of the band [low, high]
BandLabel(low, high) == IntToStr(low) \o <<"-">> \o IntToStr(high)

\* C25: for max_distance >= 1 the table holds the bands [0, 499], [500, 999],
\* ... in order, each labelled "low-high" and starting where the one before
\* ended; the last band holds max_distance; every band lists exactly the
\* exposed carriers.
C25_BandsCoverDistance ==
    (Priced /\ args.max_distance >= 1) =>
        /\ Len(Bands) >= 1
        /\ \A g \in 1..Len(Bands) :
              /\ Bands[g].k = BandLabel(500 * (g - 1), 500 * g - 1)
              /\ {Bands[g].v.d[i].k : i \in 1..Len(Bands[g].v.d)} = {NameOf(c) : c \in Exposed}
              /\ Len(Bands[g].v.d) = Cardinality(Exposed)
        /\ 500 * (Len(Bands) - 1) <= args.max_distance
        /\ args.max_distance <= 500 * Len(Bands) - 1

---------------------------------------------------------------------------
(* The moving-help estimators on every day of the calendar *)

\* the estimators run on any day of MaxYears years
MaxYears == 2

Days ==
    {Date(y, m, d) : y \in 2027..(2026 + MaxYears), m \in 1..12, d \in 1..31}
    \ {dt \in {Date(y, m, d) : y \in 2027..(2026 + MaxYears), m \in 1..12, d \in 29..31} :
          dt.d > DaysInMonth(dt.y, dt.m)}

\* what estimate_moving_help_cost of main.py hands to get_moving_help_options
MovingHelpArgs(req, now) ==
    LET loading_dt == now
        unloading_dt == ReplaceDayPlusOne(loading_dt).value
    IN [loading_address |-> slug_to_city_state(req.from_city_slug),
        unloading_address |-> slug_to_city_state(req.to_city_slug),
        loading_date |-> Strftime(loading_dt), loading_time |-> <<"Morning">>,
        unloading_date |-> Strftime(unloading_dt), unloading_time |-> <<"Afternoon">>]

\* the mover pages the terminal variant is run against
HelpPages == {page \in MoverPages : page.captcha = "none" /\ Len(page.cards) <= 1}

\* estimate_moving_help_cost of main_service.py
EstimateMovingHelpCost ==
    /\ Idle
    /\ \E now \in Days :
         LET req == MoveRequest(<<"m", "a", "d", "i", "s", "o", "n", "w", "i">>,
                                <<"s", "e", "a", "t", "t", "l", "e", "w", "a">>,
                                June, August, <<"0", "1">>,
                                <<"0", "0", "0", "0", "0", "0">>, 2)
         IN /\ args' = [req |-> req, now |-> now]
            /\ ret' = [ok |-> TRUE, value |-> estimate_moving_help_cost(req, now), error |-> ""]
    /\ op' = "estimate_moving_help_cost"
    /\ UNCHANGED <<listings, calls, transportState, scriptState>>

\* estimate_moving_help_cost of main.py, with the scraper it calls
MainEstimateMovingHelpCost ==
    /\ Idle
    /\ \E now \in Days, page \in HelpPages :
         LET req == main_MoveRequest(<<"m", "a", "d", "i", "s", "o", "n", "w", "i">>,
                                     <<"s", "e", "a", "t", "t", "l", "e", "w", "a">>,
                                     June, August,
                                     <<"0", "0", "0", "0", "0", "0", "1", "0">>, 2)
             web == Web(TRUE, NoPage, page)
             movers == IF ReplaceDayPlusOne(now).ok
                       THEN get_moving_help_options(web, MovingHelpArgs(req, now))
                       ELSE Raised("not called", <<>>)
         IN \E out \in {main_estimate_moving_help_cost(req, now, movers)} :
               /\ args' = [req |-> req, now |-> now, web |-> web]
               /\ ret' = [ok |-> out.ok, value |-> IF out.ok THEN out.value ELSE None,
                          error |-> IF out.ok THEN "" ELSE out.error]
               /\ calls' = IF ReplaceDayPlusOne(now).ok THEN movers.steps ELSE <<>>
    /\ op' = "main_estimate_moving_help_cost"
    /\ UNCHANGED <<listings, transportState, scriptState>>

InitDates == InitCommon /\ listings = FileMissing
NextDates == EstimateMovingHelpCost \/ MainEstimateMovingHelpCost
SpecDates == InitDates /\ [][NextDates]_vars

---------------------------------------------------------------------------
(* Properties of the moving-help dates (SpecDates) *)

\* the number of the day dt in the proleptic Gregorian calendar, counted
\* from 0000-03-01
DayNumber(dt) ==
    LET y == IF dt.m <= 2 THEN dt.y - 1 ELSE dt.y
        era == y \div 400
        yoe == y - era * 400
        mp == (dt.m + 9) % 12
        doy == (153 * mp + 2) \div 5 + dt.d - 1
    IN era * 146097 + yoe * 365 + yoe \div 4 - yoe \div 100 + doy

\* dt is a day of the calendar: its month exists and it comes before the
\* first day of the month after
IsCalendarDate(dt) ==
    /\ dt.m \in 1..12
    /\ dt.d >= 1
    /\ DayNumber(dt) < DayNumber(IF dt.m = 12 THEN Date(dt.y + 1, 1, 1)
                                 ELSE Date(dt.y, dt.m + 1, 1))

\* the date a "%m/%d/%Y" text names
ParseDate(text) ==
    Date(DigitsVal(SubSeq(text, 7, Len(text)), 0), DigitsVal(SubSeq(text, 1, 2), 0),
         DigitsVal(SubSeq(text, 4, 5), 0))

\* C26: on every day of the calendar, month ends and December 31 included,
\* both variants of estimate_moving_help_cost give an unloading date that is
\* the day after the loading date (today), and neither fails because of the
\* date.
C26_UnloadingIsNextDay ==
    op \in {"estimate_moving_help_cost", "main_estimate_moving_help_cost"} =>
        /\ ret.error # "ValueError"
        /\ ret.ok =>
              LET loading == ParseDate(DictGet(ret.value, "loading_date").s)
                  unloading == ParseDate(DictGet(ret.value, "unloading_date").s)
              IN /\ loading = args.now
                 /\ IsCalendarDate(unloading)
                 /\ DayNumber(unloading) = DayNumber(loading) + 1

---------------------------------------------------------------------------
(* backend/google_search_engine/google_search_empty.py *)

\* a response of the search API: an exception of requests.get, or a status
\* and the items of the JSON body
Response(raises, status, items) == [raises |-> raises, status |-> status, items |-> items]

\* the lookup without the test of the flag at its start
get_listing_website_NoFlagTest(hit, formatted_address, resp) ==
    IF formatted_address = <<>>
    THEN [website |-> None, rate_limit_hit |-> hit, sent |-> FALSE]
    ELSE IF resp.raises THEN [website |-> None, rate_limit_hit |-> hit, sent |-> TRUE]
    ELSE IF resp.status = 429 THEN [website |-> None, rate_limit_hit |-> TRUE, sent |-> TRUE]
    ELSE IF resp.status >= 400 THEN [website |-> None, rate_limit_hit |-> hit, sent |-> TRUE]
    ELSE IF resp.items = <<>> THEN [website |-> None, rate_limit_hit |-> hit, sent |-> TRUE]
    ELSE [website |-> resp.items[1].link, rate_limit_hit |-> hit, sent |-> TRUE]

\* get_listing_website(formatted_address) with the global rate_limit_hit as
\* hit and the API's answer as resp: the website, the new value of the
\* global, and whether a request was sent
get_listing_website(hit, formatted_address, resp) ==
    IF hit \/ formatted_address = <<>>
    THEN [website |-> None, rate_limit_hit |-> hit, sent |-> FALSE]
    ELSE IF resp.raises THEN [website |-> None, rate_limit_hit |-> hit, sent |-> TRUE]
    ELSE IF resp.status = 429 THEN [website |-> None, rate_limit_hit |-> TRUE, sent |-> TRUE]
    ELSE IF resp.status >= 400 THEN [website |-> None, rate_limit_hit |-> hit, sent |-> TRUE]
    ELSE IF resp.items = <<>> THEN [website |-> None, rate_limit_hit |-> hit, sent |-> TRUE]
    ELSE [website |-> resp.items[1].link, rate_limit_hit |-> hit, sent |-> TRUE]

\* `website or ""`
OrEmpty(website) == IF IsStr(website) THEN website.s ELSE <<>>

---------------------------------------------------------------------------
(* The enrichment run: inputs, steps and specification *)

\* the input file holds at most MaxRows rows
MaxRows == 3

SearchRow(id, formattedAddress, listingWebsite) ==
    [id |-> id, formattedAddress |-> formattedAddress, listingWebsite |-> listingWebsite]

\* the row i of an input file: with or without an address, with or without
\* a website
SearchRows(i) ==
    {SearchRow(i, address, website) :
        address \in {<<>>, <<"12 Oak St, Neenah, WI">>},
        website \in {<<>>, <<"https://oak.example">>}}

SearchFiles ==
    {CsvFile(rows) :
        rows \in UNION {{r \in [1..n -> UNION {SearchRows(i) : i \in 1..n}] :
                            \A i \in 1..n : r[i].id = i} : n \in 0..MaxRows}}

Responses ==
    {Response(TRUE, 0, <<>>),
     Response(FALSE, 429, <<>>),
     Response(FALSE, 500, <<>>),
     Response(FALSE, 200, <<>>),
     Response(FALSE, 200, <<[link |-> None]>>),
     Response(FALSE, 200, <<[link |-> Str(<<"https://found.example">>)]>>)}

\* main() up to the loop: both files are opened and the header is written
OpenCsvFiles ==
    /\ Idle
    /\ input_csv.exists
    /\ op' = "main"
    /\ output_csv' = CsvFile(<<>>)
    /\ UNCHANGED <<listings, args, ret, calls, transportState, input_csv, rate_limit_hit,
                   fetched, offset>>

\* one turn of the loop of main(): the next row is looked up if it has no
\* website, and written
EnrichRow ==
    /\ op = "main"
    /\ Len(output_csv.rows) < Len(input_csv.rows)
    /\ LET i == Len(output_csv.rows) + 1
           row == input_csv.rows[i]
       IN IF row.listingWebsite = <<>>
          THEN \E resp \in Responses :
                 \E out \in {get_listing_website(rate_limit_hit, row.formattedAddress, resp)} :
                    /\ rate_limit_hit' = out.rate_limit_hit
                    /\ calls' = IF out.sent THEN Append(calls, row.formattedAddress) ELSE calls
                    /\ args' = [row |-> i, looked_up |-> TRUE]
                    /\ ret' = out.website
                    /\ output_csv' = CsvFile(Append(output_csv.rows,
                                         [row EXCEPT !.listingWebsite = OrEmpty(out.website)]))
          ELSE /\ args' = [row |-> i, looked_up |-> FALSE]
               /\ output_csv' = CsvFile(Append(output_csv.rows, row))
               /\ UNCHANGED <<rate_limit_hit, calls, ret>>
    /\ UNCHANGED <<listings, op, transportState, input_csv, fetched, offset>>

InitSearch ==
    /\ InitCalls
    /\ NoModels
    /\ listings = FileMissing
    /\ input_csv \in SearchFiles
    /\ output_csv = [exists |-> FALSE, rows |-> <<>>]
    /\ rate_limit_hit = FALSE
    /\ fetched = <<>>
    /\ offset = 0
NextSearch == OpenCsvFiles \/ EnrichRow
SpecSearch == InitSearch /\ [][NextSearch]_vars

---------------------------------------------------------------------------
(* Properties of the enrichment run (SpecSearch) *)

\* the rows written so far, and the input rows they were written for
Written == output_csv.rows
Read(i) == input_csv.rows[i]

\* the step is a turn of the loop that looked the row up
LooksUp == args'.looked_up /\ Len(output_csv'.rows) = Len(output_csv.rows) + 1

\* the output holds one row per input row read so far, in input order; a
\* row that had a website is written as it was read, and a row that had
\* none differs from its input in the website only
RowsInOrder ==
    /\ Len(Written) <= Len(input_csv.rows)
    /\ \A i \in 1..Len(Written) :
          /\ Written[i].id = Read(i).id
          /\ Written[i].formattedAddress = Read(i).formattedAddress
          /\ Read(i).listingWebsite # <<>> => Written[i] = Read(i)

\* C27: once a lookup has received HTTP 429 the flag stays set, and from then
\* on no lookup sends a request and every lookup returns None; a row that has
\* a listingWebsite is never looked up and is written unchanged; the output
\* has exactly one row per input row, in input order.
C27_RateLimitSticks ==
    /\ [](output_csv.exists => RowsInOrder)
    /\ [][/\ rate_limit_hit => rate_limit_hit'
          /\ (op = "main" /\ op' = "main") =>
                /\ Len(output_csv'.rows) = Len(output_csv.rows) + 1
                /\ Read(Len(output_csv'.rows)).listingWebsite # <<>> =>
                      (~args'.looked_up /\ calls' = calls)
                /\ (LooksUp /\ rate_limit_hit) => (calls' = calls /\ ret' = None)
                /\ (~rate_limit_hit /\ rate_limit_hit') =>
                      (LooksUp /\ Len(calls') = Len(calls) + 1)]_vars

\* a run over three rows: the first lookup met 429, the second row had a
\* website, the third was looked up without a request
C27_Witness ==
    /\ op = "main"
    /\ rate_limit_hit
    /\ Len(Written) = 3 /\ Len(input_csv.rows) = 3
    /\ Len(calls) = 1
    /\ Read(2).listingWebsite # <<>>
    /\ Read(3).listingWebsite = <<>> /\ Read(3).formattedAddress # <<>>
    /\ args.looked_up /\ ret = None

---------------------------------------------------------------------------
(* backend/property_data/neenah_seattle_data.py: fetch_rentals_for_city *)

\* every page asked for as many items as page_limit
limit_PageLimitOnly(page_limit, remaining) == page_limit

\* limit = min(page_limit, remaining)
limit(page_limit, remaining) == IF page_limit < remaining THEN page_limit ELSE remaining

\* the while test: len(listings) < max_results
Collecting == op = "fetch_rentals_for_city" /\ Len(fetched) < args.max_results

\* the items of a page: n items, told apart by the request they answer
Batch(n, at) == [k \in 1..n |-> [offset |-> at, item |-> k]]

---------------------------------------------------------------------------
(* The pagination loop: inputs, steps and specifications *)

\* fetch_rentals_for_city is asked for at most MaxResults items
MaxResults == 5
\* in pages of at most MaxPageLimit items
MaxPageLimit == 3

\* fetch_rentals_for_city(city, state, max_results, page_limit)
CallFetchRentals ==
    /\ Idle
    /\ \E max_results \in 0..MaxResults, page_limit \in 1..MaxPageLimit :
          args' = [max_results |-> max_results, page_limit |-> page_limit]
    /\ op' = "fetch_rentals_for_city"
    /\ fetched' = <<>>
    /\ offset' = 0
    /\ UNCHANGED <<listings, ret, calls, transportState, input_csv, output_csv, rate_limit_hit>>

\* one turn of the loop: a request for `limit` items at `offset`; the API
\* answers with an error status, or with a page of none, fewer, as many or
\* more items than asked for
FetchPage ==
    /\ Collecting
    /\ LET asked == limit(args.page_limit, args.max_results - Len(fetched))
       IN \/ /\ op' = "fetch_rentals_for_city raised"
             /\ ret' = [ok |-> FALSE, error |-> "HTTPError"]
             /\ calls' = Append(calls, [limit |-> asked, offset |-> offset, returned |-> 0])
             /\ UNCHANGED <<fetched, offset>>
          \/ \E n \in 0..(asked + 1) :
                /\ calls' = Append(calls, [limit |-> asked, offset |-> offset, returned |-> n])
                /\ IF n = 0
                   THEN /\ op' = "fetch_rentals_for_city returned"
                        /\ ret' = List(fetched)
                        /\ UNCHANGED <<fetched, offset>>
                   ELSE /\ fetched' = fetched \o Batch(n, offset)
                        /\ offset' = offset + asked
                        /\ IF n < asked
                           THEN /\ op' = "fetch_rentals_for_city returned"
                                /\ ret' = List(fetched')
                           ELSE UNCHANGED <<op, ret>>
    /\ UNCHANGED <<listings, args, transportState, input_csv, output_csv, rate_limit_hit>>

\* the while test fails: return listings
ReturnRentals ==
    /\ op = "fetch_rentals_for_city"
    /\ ~Collecting
    /\ op' = "fetch_rentals_for_city returned"
    /\ ret' = List(fetched)
    /\ UNCHANGED <<listings, args, calls, transportState, scriptState>>

InitRentals == InitCommon /\ listings = FileMissing
NextRentals == CallFetchRentals \/ FetchPage \/ ReturnRentals
SpecRentals == InitRentals /\ [][NextRentals]_vars

\* the interpreter keeps running the loop, and the API answers every request
SpecRentalsFair == SpecRentals /\ WF_vars(FetchPage) /\ WF_vars(ReturnRentals)

---------------------------------------------------------------------------
(* Properties of the pagination loop (SpecRentalsFair) *)

RECURSIVE LimitsOf(_)
LimitsOf(requests) ==
    IF requests = <<>> THEN 0 ELSE Head(requests).limit + LimitsOf(Tail(requests))

Requested == Len(calls') = Len(calls) + 1

Returned == op = "fetch_rentals_for_city returned"

\* C29: the loop ends whatever pages the API returns; it ends on an empty
\* page, on a page shorter than its limit, or with max_results items
\* collected; every request asks for min(page_limit, max_results - collected)
\* items at the offset that is the sum of the limits asked for before; and
\* when no page held more items than its limit, the result holds at most
\* max_results items.
C29_PaginationTerminates ==
    /\ (op = "fetch_rentals_for_city") ~> (op # "fetch_rentals_for_city")
    /\ [][/\ Requested =>
                /\ calls'[Len(calls')].limit =
                      Min(args.page_limit, args.max_results - Len(fetched))
                /\ calls'[Len(calls')].offset = LimitsOf(calls)
          /\ (op = "fetch_rentals_for_city" /\ Returned') =>
                \/ Requested /\ calls'[Len(calls')].returned = 0
                \/ Requested /\ calls'[Len(calls')].returned < calls'[Len(calls')].limit
                \/ Len(fetched) >= args.max_results]_vars
    /\ []((Returned /\ \A i \in 1..Len(calls) : calls[i].returned <= calls[i].limit)
             => (ret.l = fetched /\ Len(ret.l) <= args.max_results))

\* a call that needed three pages: two full ones and a last, shorter one
C29_Witness ==
    /\ Returned
    /\ Len(calls) = 3
    /\ calls[1].returned = calls[1].limit
    /\ calls[2].returned = calls[2].limit
    /\ calls[3].returned > 0
    /\ calls[3].limit < calls[1].limit
    /\ Len(ret.l) = args.max_results

---------------------------------------------------------------------------
(* backend/main.py: parse_move_request_from_path and the terminal entry point *)

\* path.strip("/")
RECURSIVE StripSlashes(_)
StripSlashes(path) ==
    IF path # <<>> /\ Head(path) = "/" THEN StripSlashes(Tail(path))
    ELSE IF path # <<>> /\ path[Len(path)] = "/" THEN StripSlashes(SubSeq(path, 1, Len(path) - 1))
    ELSE path

\* returns [ok |-> TRUE, req |-> MoveRequest] or raises ValueError ([ok |-> FALSE])
parse_move_request_from_path(path) ==
    LET parts == Split(StripSlashes(path), "/")
    IN IF Len(parts) # 7 THEN [ok |-> FALSE, error |-> "ValueError: components"]
       ELSE IF Lower(parts[1]) # <<"w", "h", "a", "t", "s", "t", "h", "e", "m", "o", "v", "e">>
       THEN [ok |-> FALSE, error |-> "ValueError: prefix"]
       ELSE IF Len(parts[6]) # 8 \/ \E i \in 1..Len(parts[6]) : parts[6][i] \notin {"0", "1"}
       THEN [ok |-> FALSE, error |-> "ValueError: flags"]
       ELSE IF ~PyInt(parts[7]).ok THEN [ok |-> FALSE, error |-> "ValueError: max cost"]
       ELSE [ok |-> TRUE, error |-> "",
             req |-> main_MoveRequest(parts[2], parts[3], parts[4], parts[5], parts[6],
                                      PyInt(parts[7]).n)]

\* example_path of the entry point
example_path ==
    <<"w", "h", "a", "t", "s", "t", "h", "e", "m", "o", "v", "e", ".", "c", "o", "m", "/",
    "m", "a", "d", "i", "s", "o", "n", "w", "i", "/",
    "s", "e", "a", "t", "t", "l", "e", "w", "a", "/",
    "j", "u", "n", "e", "/",
    "a", "u", "g", "u", "s", "t", "/",
    "0", "1", "0", "0", "0", "0", "1", "1", "/",
    "1", "5", "0", "0">>

---------------------------------------------------------------------------
(* The path parser: inputs, operations and specification *)

\* a path has up to MaxSlashes slashes before and after its components
MaxSlashes == 1

RECURSIVE Join(_)
Join(parts) ==
    IF Len(parts) = 0 THEN <<>>
    ELSE IF Len(parts) = 1 THEN parts[1]
    ELSE parts[1] \o <<"/">> \o Join(Tail(parts))

Slashes(n) == [i \in 1..n |-> "/"]

Prefixes == {<<"w", "h", "a", "t", "s", "t", "h", "e", "m", "o", "v", "e">>, <<"W", "h", "a", "t", "s", "T", "h", "e", "M", "o", "v", "e">>, <<"w", "h", "a", "t", "s", "t", "h", "e", "m", "o", "v", "e", ".", "c", "o", "m">>, <<"x">>}

PathFlags == {<<"0", "1", "0", "0", "0", "0", "1", "1">>, <<"0", "1", "0", "0", "0", "0", "1">>, <<"0", "1", "0", "0", "0", "0", "1", "1", "0">>, <<"0", "1", "0", "0", "0", "0", "1", "x">>}

PathCosts == {<<"1", "5", "0", "0">>, <<"-", "5">>, <<"1", "5", "x">>, <<"1", ".", "5">>}

\* the components of a path: six, seven or eight of them
PathParts ==
    {<<prefix, <<"a">>, <<"b">>, June, August, flags, cost>> :
        prefix \in Prefixes, flags \in PathFlags, cost \in PathCosts}
    \cup {<<prefix, <<"a">>, <<"b">>, June, flags, cost>> :
        prefix \in Prefixes, flags \in {<<"0", "1", "0", "0", "0", "0", "1", "1">>}, cost \in PathCosts}
    \cup {<<prefix, <<"a">>, <<"b">>, June, August, flags, cost, <<"x">>>> :
        prefix \in Prefixes, flags \in {<<"0", "1", "0", "0", "0", "0", "1", "1">>}, cost \in PathCosts}

ParseMoveRequestFromPath ==
    /\ Idle
    /\ \E parts \in PathParts, before \in 0..MaxSlashes, after \in 0..MaxSlashes :
         LET path == Slashes(before) \o Join(parts) \o Slashes(after)
         IN /\ args' = [path |-> path, parts |-> parts]
            /\ ret' = parse_move_request_from_path(path)
    /\ op' = "parse_move_request_from_path"
    /\ UNCHANGED <<listings, calls, transportState, scriptState>>

\* `python main.py`: the job posting is analysed (job_info stays None when no
\* URL is typed or the analysis fails), the example path is parsed and the
\* plan is built for it
MainEntryPoint ==
    /\ Idle
    /\ \E parsed \in {parse_move_request_from_path(example_path)}, job_info \in MainJobInfos :
         IF ~parsed.ok
         THEN /\ args' = [path |-> example_path]
              /\ ret' = [status |-> 1, body |-> None, error |-> parsed.error]
              /\ calls' = <<"parse_move_request_from_path">>
         ELSE \E truck \in (IF main_use_uhaul_truck(parsed.req) /\ ~main_no_transport_needed(parsed.req)
                            THEN ScraperOutcomes("truck_rental") ELSE {ScraperNotCalled}),
                 movers \in (IF main_need_moving_help(parsed.req) /\ ~main_no_transport_needed(parsed.req)
                             THEN ScraperOutcomes("moving_help") ELSE {ScraperNotCalled}),
                 now \in Nows :
                 \E out \in {main_build_move_plan(parsed.req, job_info, listings, truck, movers, now)} :
                    /\ args' = [path |-> example_path]
                    /\ ret' = IF out.ok THEN [status |-> 0, body |-> out.value, error |-> ""]
                              ELSE [status |-> 1, body |-> None, error |-> out.error]
                    /\ calls' = <<"parse_move_request_from_path", "build_move_plan">> \o out.calls
    /\ op' = "__main__"
    /\ UNCHANGED <<listings, transportState, scriptState>>

InitPath == InitCommon /\ listings \in PlanFiles
NextPath == ParseMoveRequestFromPath \/ MainEntryPoint
SpecPath == InitPath /\ [][NextPath]_vars

---------------------------------------------------------------------------
(* Properties of the path parser (SpecPath) *)

\* C30: parse_move_request_from_path accepts a path only if it has exactly 7
\* components, its first component is 'whatsthemove' in any case, its flags
\* are 8 characters of 0/1 and its last component is an integer; and the
\* entry point's example path is accepted, so the entry point reaches
\* build_move_plan.
C30_PathAccepted ==
    /\ (op = "parse_move_request_from_path" /\ ret.ok) =>
          /\ Len(args.parts) = 7
          /\ Lower(args.parts[1]) = <<"w", "h", "a", "t", "s", "t", "h", "e", "m", "o", "v", "e">>
          /\ args.parts[6] \in BitStrings(8)
          /\ PyInt(args.parts[7]).ok
    /\ op = "__main__" =>
          /\ Len(calls) >= 2
          /\ calls[2] = "build_move_plan"

====
